---- MODULE Spec2Model ----
(***************************************************************************)
(* Verification model of the Lodz_Hack transit pipeline.                   *)
(*                                                                         *)
(* The repository holds several independent programs; each is modelled as  *)
(* its own state machine over its own group of variables:                  *)
(*                                                                         *)
(*   SpecRound   pipeline.seconds_to_minutes_custom                        *)
(*   SpecDecode  bin_to_csv.extract_protobuf_fields / read_varint          *)
(*   SpecMatch   live_vehicle_suggest.enrich_route_with_live_vehicle_data  *)
(*   SpecJoin    pipeline.build_vehicles_trips_joined_from_feeds           *)
(*   SpecPoll    veh_pos.fetch_vehicle_positions / get_vehicle_positions   *)
(*                                                                         *)
(* While one machine runs, the variables of the others rest at their idle  *)
(* values.                                                                 *)
(***************************************************************************)
EXTENDS Integers, Sequences, FiniteSets, TLC

VARIABLES
    \* ---- seconds_to_minutes_custom
    sec,            \* the argument: None or Some(integer seconds)
    minutes,        \* the returned value
    rpc,            \* "idle" | "call" | "ret"
    \* ---- extract_protobuf_fields
    data,           \* the byte buffer handed to the decoder
    di,             \* the loop index i (0-based, as in the source)
    results,        \* the records appended so far
    diters,         \* how many times the while body has been entered
    dpc,            \* "idle" | "loop" | "done"
    \* ---- enrich_route_with_live_vehicle_data
    has_route,      \* route_response holds a route with a list of steps
    steps,          \* route_response["route"]["steps"]
    orig_steps,     \* the steps as they were handed in
    vehicles_rows,  \* the rows fetched from /data
    mk,             \* how many steps the for loop has passed
    mpc,            \* "idle" | "start" | "loop" | "done" | "failed"
    \* ---- build_vehicles_trips_joined_from_feeds
    vehicle_feed,   \* the entities of the vehicle-positions FeedMessage
    trip_feed,      \* the entities of the trip-updates FeedMessage
    joined,         \* the outcome: the merged rows, or the exception raised
    jpc,            \* "idle" | "call" | "ret"
    \* ---- veh_pos: fetch_vehicle_positions and get_vehicle_positions
    latest_response_data,  \* the published snapshot: None or Some(dict)
    db_lock,        \* "free", "poller" or the reader that holds it
    ppc,            \* where the polling thread is
    cycle,          \* the number of the polling cycle, also its clock
    response,       \* response.content of the cycle: None or Some(bytes)
    built,          \* the dict the cycle assembled before publishing
    outcome,        \* how the last finished cycle ended
    at_cycle_start, \* latest_response_data when the cycle began
    hist,           \* every dict a cycle assembled for publication
    rd_pc,          \* where each request handler is
    rd_raw,         \* whether the request carries include_raw
    rd_copy,        \* response_data of each handler
    rd_resp,        \* what each handler last answered
    \* ---- backend_map: scraper_thread
    utruds_file,    \* mpk_utrudnienia.txt: None or Some(content)
    utruds_json_file, \* mpk_utrudnienia.json: None or Some(content)
    spc,            \* where the scraper thread is
    scycle,         \* the number of the scraper cycle, also its clock
    utrudnienia,    \* what scrape_mpk_utrudnienia returned in this cycle
    structured_data, \* what process_utrudnienia_with_llm returned
    scrape_failed,  \* whether the fetch of the advisory page failed in this cycle
    files_before,   \* both files as they were when the cycle began
    llm_failed,     \* whether the LLM call raised or answered without JSON
    write_failed,   \* whether a write of a file raised in this cycle
    \* ---- backend_map: get_all_data
    gpc,            \* where the handler of GET /data is
    g_response,     \* what the handler answered
    g_malformed,    \* whether a payload of this request failed to parse
    \* ---- alerts_monitor: continuous_fetch_loop
    apc,            \* where the monitor loop is
    atick,          \* the tick of the loop, counted round a small ring
    a_alerts,       \* how fetch_alerts ended in this tick
    a_positions,    \* how fetch_vehicle_positions ended in this tick
    a_saved         \* the files written to the two save folders

roundVars == <<sec, minutes, rpc>>
decVars == <<data, di, results, diters, dpc>>
matchVars == <<has_route, steps, orig_steps, vehicles_rows, mk, mpc>>

joinVars == <<vehicle_feed, trip_feed, joined, jpc>>

pollerVars == <<ppc, cycle, response, built, outcome, at_cycle_start, hist>>
readerVars == <<rd_pc, rd_raw, rd_copy, rd_resp>>
pollVars == <<latest_response_data, db_lock, pollerVars, readerVars>>

scrapeVars == <<utruds_file, utruds_json_file, spc, scycle, utrudnienia,
                structured_data, scrape_failed, files_before, llm_failed,
                write_failed>>
dataVars == <<gpc, g_response, g_malformed>>
alertVars == <<apc, atick, a_alerts, a_positions, a_saved>>
moreVars == <<scrapeVars, dataVars, alertVars>>

vars == <<roundVars, decVars, matchVars, joinVars, pollVars, moreVars>>

\* What each machine leaves alone: the variables of the others.
notRound == <<decVars, matchVars, joinVars, pollVars, moreVars>>
notDec == <<roundVars, matchVars, joinVars, pollVars, moreVars>>
notMatch == <<roundVars, decVars, joinVars, pollVars, moreVars>>
notJoin == <<roundVars, decVars, matchVars, pollVars, moreVars>>
notPoll == <<roundVars, decVars, matchVars, joinVars, moreVars>>
notScrape == <<roundVars, decVars, matchVars, joinVars, pollVars, dataVars,
               alertVars>>
notData == <<roundVars, decVars, matchVars, pollVars, scrapeVars, alertVars>>
notAlert == <<roundVars, decVars, matchVars, joinVars, pollVars, scrapeVars,
              dataVars>>

(***************************************************************************)
(* Python values.  An optional value (a field that may be None, a NaN cell *)
(* of a DataFrame) is the empty tuple when absent and a one-element tuple  *)
(* when present.                                                           *)
(***************************************************************************)
None == <<>>
Some(x) == <<x>>
IsNone(o) == o = <<>>
Val(o) == o[1]

Abs(x) == IF x < 0 THEN -x ELSE x

\* The sequences over S of length at most n.
RECURSIVE SeqsUpTo(_, _)
SeqsUpTo(S, n) ==
    IF n = 0 THEN { <<>> }
    ELSE LET shorter == SeqsUpTo(S, n - 1)
         IN  shorter \cup { Append(q, x) : q \in shorter, x \in S }

\* Python's // on a positive divisor: rounds toward minus infinity.
PyFloorDiv(a, b) == a \div b

\* Python's % on a positive divisor: the result is in 0..b-1.
PyMod(a, b) == a % b

(***************************************************************************)
(* pipeline.seconds_to_minutes_custom                                      *)
(***************************************************************************)
\* Bound of the delays explored, in seconds.
MaxSec == 130

\* Plain rounding to the nearest minute, halves up, whatever the sign.
seconds_to_minutes_nearest(s) ==
    IF IsNone(s) THEN None
    ELSE Some(PyFloorDiv(Val(s) + 30, 60))

seconds_to_minutes_custom(s) ==
    IF IsNone(s) THEN None
    ELSE LET secf == Val(s)
             mins == PyFloorDiv(secf, 60)
             remainder == Abs(PyMod(secf, 60))
         IN  IF remainder < 30 THEN Some(mins)
             ELSE IF secf < 0 THEN Some(mins - 1)
                  ELSE Some(mins + 1)

(***************************************************************************)
(* bin_to_csv.read_varint / extract_protobuf_fields                        *)
(*                                                                         *)
(* Buffers are sequences of bytes 0..255; Python's 0-based data[k] is      *)
(* data[k + 1] here.                                                       *)
(***************************************************************************)
Min(a, b) == IF a < b THEN a ELSE b

\* data[k]
At(d, k) == d[k + 1]

\* data[a:b]: a slice is clipped to the buffer.
Slice(d, a, b) == SubSeq(d, a + 1, Min(b, Len(d)))

RECURSIVE Pow2(_)
Pow2(n) == IF n = 0 THEN 1 ELSE 2 * Pow2(n - 1)

\* The longest varint read, in bytes.
VarintMaxBytes == 10

\* The loop of read_varint from index k on: <<result, bytes_read>> after the
\* bytes start..stop-1, result and shift being those reached before k.
RECURSIVE VarintFrom(_, _, _, _, _, _)
VarintFrom(d, k, stop, result, shift, bytes_read) ==
    IF k >= stop THEN <<result, bytes_read>>
    ELSE LET byte == At(d, k)
             r2 == result + (byte % 128) * Pow2(shift)
         IN  IF byte < 128 THEN <<r2, bytes_read + 1>>
             ELSE VarintFrom(d, k + 1, stop, r2, shift + 7, bytes_read + 1)

read_varint(d, start) ==
    VarintFrom(d, start, Min(start + VarintMaxBytes, Len(d)), 0, 0, 0)

\* bytes.hex(): two hexadecimal digits (0..15) per byte, high digit first.
RECURSIVE Hex(_)
Hex(bs) ==
    IF bs = <<>> THEN <<>>
    ELSE <<Head(bs) \div 16, Head(bs) % 16>> \o Hex(Tail(bs))

\* struct.unpack('<d', b)[0] and struct.unpack('<f', b)[0]: the floating value
\* with the bit pattern b, kept as that pattern, most significant byte first.
RECURSIVE Reverse(_)
Reverse(bs) == IF bs = <<>> THEN <<>> ELSE Append(Reverse(Tail(bs)), Head(bs))

UnpackFloat(width, bs) == [t |-> "float", width |-> width, bits |-> Reverse(bs)]

WireTypeNames ==
    <<"Varint", "64-bit", "Length-delimited", "Start group", "End group",
      "32-bit", "Unknown">>

WireTypeName(wt) == IF wt < 7 THEN WireTypeNames[wt + 1] ELSE "Unknown"

\* The safety limit on the records of one buffer.
RecordLimit == 1000

\* field_info as first built from the tag byte at offset i.
FieldInfo(d, i) ==
    LET byte == At(d, i)
    IN  [kind |-> "field", offset |-> i,
         field_number |-> Some(byte \div 8), wire_type |-> Some(byte % 8),
         wire_type_name |-> Some(WireTypeName(byte % 8)),
         raw_byte |-> Some(byte),
         value |-> None, value_bytes |-> None, length |-> None, error |-> None]

\* The record of the except branch.
ErrorInfo(d, i, msg) ==
    [kind |-> "error", offset |-> i,
     field_number |-> None, wire_type |-> None, wire_type_name |-> None,
     raw_byte |-> IF i < Len(d) THEN Some(At(d, i)) ELSE None,
     value |-> None, value_bytes |-> None, length |-> None, error |-> Some(msg)]

\* One pass of the try body at index i: the record built, the index reached,
\* whether the record is appended and whether the body left the loop early
\* (the length-delimited branch breaks before the append).
FieldStep(d, i) ==
    LET info == FieldInfo(d, i)
        wt == At(d, i) % 8
        j == i + 1
        vi == read_varint(d, j)
    IN  CASE wt = 0 ->
               [rec |-> [info EXCEPT !.value = Some(vi[1]),
                                     !.value_bytes = Some(vi[2])],
                next |-> j + vi[2], appended |-> TRUE]
          [] wt = 1 ->
               IF j + 8 <= Len(d)
               THEN [rec |-> [info EXCEPT
                                !.value = Some(UnpackFloat(8, Slice(d, j, j + 8)))],
                     next |-> j + 8, appended |-> TRUE]
               ELSE [rec |-> info, next |-> j, appended |-> TRUE]
          [] wt = 2 ->
               IF j + vi[2] + vi[1] <= Len(d)
               THEN [rec |-> [info EXCEPT
                                !.length = Some(vi[1]),
                                !.value = Some(Hex(Slice(d, j + vi[2],
                                                         j + vi[2] + vi[1])))],
                     next |-> j + vi[2] + vi[1], appended |-> TRUE]
               ELSE [rec |-> [info EXCEPT !.length = Some(vi[1])],
                     next |-> j, appended |-> FALSE]
          [] wt = 5 ->
               IF j + 4 <= Len(d)
               THEN [rec |-> [info EXCEPT
                                !.value = Some(UnpackFloat(4, Slice(d, j, j + 4)))],
                     next |-> j + 4, appended |-> TRUE]
               ELSE [rec |-> info, next |-> j, appended |-> TRUE]
          [] OTHER ->
               [rec |-> info, next |-> j + 1, appended |-> TRUE]

\* What in the try body can raise: an index past the buffer, the name list
\* indexed past its end, a fixed-width slice of the wrong size.  The guards of
\* the source rule each of them out.
FieldRaises(d, i) ==
    LET wt == At(d, i) % 8
        j == i + 1
    IN  \/ i >= Len(d)
        \/ wt < 7 /\ wt + 1 > Len(WireTypeNames)
        \/ wt = 1 /\ j + 8 <= Len(d) /\ Len(Slice(d, j, j + 8)) # 8
        \/ wt = 5 /\ j + 4 <= Len(d) /\ Len(Slice(d, j, j + 4)) # 4

\* The test that ends the loop after an append.
LoopBreaksNoLimit(next, n, len) == next >= len

LoopBreaks(next, n, len) == next >= len \/ n > RecordLimit

\* Buffers: a few chunks laid end to end, and one buffer long enough for the
\* record limit to be met.
MaxChunks == 3

ChunkSet ==
    { <<0>>, <<1>>, <<2>>, <<8>>, <<9>>, <<10>>, <<11>>, <<13>>, <<15>>, <<129>>,
      <<0, 0, 0, 0>>, <<0, 0, 0, 0, 0, 0, 0, 0>> }

RECURSIVE Buffers(_)
Buffers(n) ==
    IF n = 0 THEN { <<>> }
    ELSE LET shorter == Buffers(n - 1)
         IN  shorter \cup { b \o c : b \in shorter, c \in ChunkSet }

LongLen == 2 * RecordLimit + 4

LongBuffer == [k \in 1..LongLen |-> 0]

DecInit ==
    /\ data \in Buffers(MaxChunks) \cup { LongBuffer }
    /\ di = 0
    /\ results = <<>>
    /\ diters = 0
    /\ dpc = "loop"

\* while i < len(data): one pass of the body.
DecodeField ==
    /\ dpc = "loop"
    /\ di < Len(data)
    /\ diters' = diters + 1
    /\ IF FieldRaises(data, di)
       THEN /\ results' = Append(results, ErrorInfo(data, di, "exception"))
            /\ di' = di + 1
            /\ dpc' = IF di + 1 >= Len(data) THEN "done" ELSE "loop"
       ELSE LET st == FieldStep(data, di)
            IN  IF st.appended
                THEN /\ results' = Append(results, st.rec)
                     /\ di' = st.next
                     /\ dpc' = IF LoopBreaks(st.next, Len(results) + 1, Len(data))
                               THEN "done" ELSE "loop"
                ELSE /\ results' = results
                     /\ di' = st.next
                     /\ dpc' = "done"
    /\ UNCHANGED <<data, notDec>>

\* The while test fails: return results.
DecodeReturn ==
    /\ dpc = "loop"
    /\ di >= Len(data)
    /\ dpc' = "done"
    /\ UNCHANGED <<data, di, results, diters, notDec>>

(***************************************************************************)
(* live_vehicle_suggest: extract_stop_code, classify_delay_status,         *)
(* find_matching_vehicle, enrich_route_with_live_vehicle_data              *)
(*                                                                         *)
(* A stop label and a stop id are sequences of one-character strings, so   *)
(* that the pattern \((\d+)\)\s*$ is matched character by character.       *)
(***************************************************************************)
Digits == {"0", "1", "2", "3", "4", "5", "6", "7", "8", "9"}
Whitespace == {" "}

\* The label without the whitespace at its end (the \s*$ of the pattern).
RECURSIVE RStrip(_)
RStrip(l) ==
    IF l # <<>> /\ l[Len(l)] \in Whitespace THEN RStrip(SubSeq(l, 1, Len(l) - 1))
    ELSE l

\* How many digits end at position k of l.
RECURSIVE DigitsEndingAt(_, _)
DigitsEndingAt(l, k) ==
    IF k >= 1 /\ l[k] \in Digits THEN 1 + DigitsEndingAt(l, k - 1) ELSE 0

\* The pattern matched anywhere in the label, not only at its end: the first
\* parenthesised run of digits.
RECURSIVE FirstCodeFrom(_, _)
FirstCodeFrom(l, k) ==
    IF k > Len(l) THEN None
    ELSE IF l[k] = ")" /\ DigitsEndingAt(l, k - 1) >= 1
            /\ k - 1 - DigitsEndingAt(l, k - 1) >= 1
            /\ l[k - 1 - DigitsEndingAt(l, k - 1)] = "("
         THEN Some(SubSeq(l, k - DigitsEndingAt(l, k - 1), k - 1))
         ELSE FirstCodeFrom(l, k + 1)

extract_stop_code_anywhere(stop_label) ==
    IF IsNone(stop_label) \/ Val(stop_label) = <<>> THEN None
    ELSE FirstCodeFrom(Val(stop_label), 1)

\* STOP_CODE_PATTERN.search(stop_label): group 1 of \((\d+)\)\s*$, or None.
extract_stop_code(stop_label) ==
    IF IsNone(stop_label) \/ Val(stop_label) = <<>> THEN None
    ELSE LET l == RStrip(Val(stop_label))
             n == Len(l)
             nd == DigitsEndingAt(l, n - 1)
         IN  IF n >= 3 /\ l[n] = ")" /\ nd >= 1 /\ n - 1 - nd >= 1
                /\ l[n - 1 - nd] = "("
             THEN Some(SubSeq(l, n - nd, n - 1))
             ELSE None

\* The classification with the early bound taken as strict.
classify_delay_status_strict(delay_min) ==
    IF IsNone(delay_min) THEN None
    ELSE IF Val(delay_min) < -1 THEN Some("early")
    ELSE IF Val(delay_min) <= 1 THEN Some("on_time")
    ELSE Some("late")

\* delay_min is None or a number of minutes, which float() accepts.
classify_delay_status(delay_min) ==
    IF IsNone(delay_min) THEN None
    ELSE IF Val(delay_min) <= -1 THEN Some("early")
    ELSE IF Val(delay_min) <= 1 THEN Some("on_time")
    ELSE Some("late")

\* str(x) of a route id and of a stop id: None prints as the word None.
StrRoute(o) == IF IsNone(o) THEN "None" ELSE Val(o)
StrStop(o) == IF IsNone(o) THEN <<"N", "o", "n", "e">> ELSE Val(o)

\* `not x` of an optional string: None and the empty string are false.
FalsyLine(o) == IsNone(o) \/ Val(o) = ""
FalsyCode(o) == IsNone(o) \/ Val(o) = <<>>

\* The sort key with its sign turned, which puts the oldest report first.
SortKeyAscending(v) ==
    IF IsNone(v.timestamp) THEN 0 ELSE 0 - Val(v.timestamp)

\* The sort key v.get("timestamp") or 0.
SortKey(v) ==
    IF IsNone(v.timestamp) \/ Val(v.timestamp) = 0 THEN 0 ELSE Val(v.timestamp)

\* candidates.sort(key, reverse=True)[0]: the sort is stable, so the first
\* candidate in list order among those of the greatest key.
FirstOfGreatestKey(cands) ==
    LET k == CHOOSE i \in 1..Len(cands) :
                 /\ \A j \in 1..Len(cands) : SortKey(cands[j]) <= SortKey(cands[i])
                 /\ \A j \in 1..(i - 1) : SortKey(cands[j]) < SortKey(cands[i])
    IN  cands[k]

\* The matcher with the line as its only filter.
find_matching_vehicle_by_line(rows, line, dep_stop_code) ==
    IF FalsyLine(line) THEN None
    ELSE LET OnLine(v) == StrRoute(v.route_id) = Val(line)
             candidates == SelectSeq(rows, OnLine)
         IN  IF candidates = <<>> THEN None
             ELSE Some(FirstOfGreatestKey(candidates))

find_matching_vehicle(rows, line, dep_stop_code) ==
    IF FalsyLine(line) \/ FalsyCode(dep_stop_code) THEN None
    ELSE LET AtStop(v) == /\ StrRoute(v.route_id) = Val(line)
                          /\ StrStop(v.current_stop_id) = Val(dep_stop_code)
             candidates == SelectSeq(rows, AtStop)
         IN  IF candidates = <<>> THEN None
             ELSE Some(FirstOfGreatestKey(candidates))

\* step["vehicle_live"] as built from the matched row.
VehicleLive(match) ==
    [vehicle_id |-> match.vehicle_id,
     route_id |-> match.route_id,
     current_stop_id |-> match.current_stop_id,
     current_stop_name |-> match.current_stop_name,
     arrival_delay_minutes |-> match.arrival_delay_minutes,
     delay_status |-> classify_delay_status(match.arrival_delay_minutes),
     timestamp |-> match.timestamp]

\* The step replaced by a new one that holds the mode and the annotation
\* only.
StepRebuiltWithVehicleLive(step, match) ==
    [mode |-> step.mode, line |-> None, departure_stop |-> None,
     vehicle_live |-> Some(VehicleLive(match))]

\* step["vehicle_live"] = {...}: the step dict itself gets the one key.
StepWithVehicleLive(step, match) ==
    [step EXCEPT !.vehicle_live = Some(VehicleLive(match))]

\* ---- inputs
Veh(id, route, stop, ts, delay) ==
    [vehicle_id |-> Some(id), route_id |-> route, current_stop_id |-> stop,
     current_stop_name |-> IF IsNone(stop) THEN None ELSE Some("stop"),
     arrival_delay_minutes |-> delay, timestamp |-> ts]

Stop52 == <<"5", "2">>
Stop9 == <<"9">>

Fleet ==
    { Veh("v1", Some("F1"), Some(Stop52), Some(1000), Some(2)),
      Veh("v2", Some("F1"), Some(Stop9), Some(2000), None),
      Veh("v3", Some("F1"), Some(Stop52), None, Some(-1)),
      Veh("v4", Some("F2"), Some(Stop52), Some(2000), Some(0)),
      Veh("v5", None, None, Some(1000), None),
      Veh("v6", Some("F1"), Some(Stop52), Some(2000), Some(1)),
      Veh("v7", Some("F1"), Some(Stop52), Some(0), Some(0)) }

LabelCoded == <<"A", " ", "(", "5", "2", ")">>
LabelCodedSpace == <<"(", "9", ")", " ">>
LabelPlain == <<"A">>
LabelCodeFirst == <<"(", "5", "2", ")", "A">>

Step(mode, line, label) ==
    [mode |-> mode, line |-> line, departure_stop |-> label, vehicle_live |-> None]

StepKinds ==
    { Step("WALKING", None, None),
      Step("TRANSIT", None, Some(LabelCoded)),
      Step("TRANSIT", Some("F1"), None),
      Step("TRANSIT", Some("F1"), Some(LabelCoded)),
      Step("TRANSIT", Some("F1"), Some(LabelCodedSpace)),
      Step("TRANSIT", Some("F1"), Some(LabelPlain)),
      Step("TRANSIT", Some("F1"), Some(LabelCodeFirst)) }

MaxSteps == 2
MaxRows == 2

MatchIdle ==
    /\ has_route = FALSE
    /\ steps = <<>>
    /\ orig_steps = <<>>
    /\ vehicles_rows = <<>>
    /\ mk = 0
    /\ mpc = "idle"

MatchInit ==
    /\ has_route \in BOOLEAN
    /\ steps \in IF has_route THEN SeqsUpTo(StepKinds, MaxSteps) ELSE { <<>> }
    /\ orig_steps = steps
    /\ vehicles_rows = <<>>
    /\ mk = 0
    /\ mpc = "start"

\* if not route / not isinstance(steps, list): return route_response
EnrichNoRoute ==
    /\ mpc = "start"
    /\ ~has_route
    /\ mpc' = "done"
    /\ UNCHANGED <<has_route, steps, orig_steps, vehicles_rows, mk, notMatch>>

\* requests.get(DATA_API_URL) answers with a JSON list (kept) or with JSON
\* that is no list (replaced by []).
EnrichFetch ==
    /\ mpc = "start"
    /\ has_route
    /\ \E is_list \in BOOLEAN, rows \in SeqsUpTo(Fleet, MaxRows) :
          /\ ~is_list => rows = <<>>
          /\ vehicles_rows' = rows
    /\ mpc' = "loop"
    /\ UNCHANGED <<has_route, steps, orig_steps, mk, notMatch>>

\* The request raises, the status is an error or the body is no JSON:
\* return route_response as it was.
EnrichFetchFails ==
    /\ mpc = "start"
    /\ has_route
    /\ mpc' = "failed"
    /\ UNCHANGED <<has_route, steps, orig_steps, vehicles_rows, mk, notMatch>>

\* for step in steps: a step that is not TRANSIT is passed over.
EnrichSkipStep ==
    /\ mpc = "loop"
    /\ mk < Len(steps)
    /\ steps[mk + 1].mode # "TRANSIT"
    /\ mk' = mk + 1
    /\ UNCHANGED <<has_route, steps, orig_steps, vehicles_rows, mpc, notMatch>>

\* for step in steps: a TRANSIT step gets vehicle_live when a vehicle matches.
EnrichTransitStep ==
    /\ mpc = "loop"
    /\ mk < Len(steps)
    /\ steps[mk + 1].mode = "TRANSIT"
    /\ LET step == steps[mk + 1]
           dep_stop_code == extract_stop_code(step.departure_stop)
           match == find_matching_vehicle(vehicles_rows, step.line, dep_stop_code)
       IN  steps' = IF IsNone(match) THEN steps
                    ELSE [steps EXCEPT
                            ![mk + 1] = StepWithVehicleLive(step, Val(match))]
    /\ mk' = mk + 1
    /\ UNCHANGED <<has_route, orig_steps, vehicles_rows, mpc, notMatch>>

\* The loop is over: route_response["route"]["steps"] = steps; return.
EnrichReturn ==
    /\ mpc = "loop"
    /\ mk = Len(steps)
    /\ mpc' = "done"
    /\ UNCHANGED <<has_route, steps, orig_steps, vehicles_rows, mk, notMatch>>

(***************************************************************************)
(* pipeline: classify_route_type, parse_vehicle_positions_feed,            *)
(* parse_trip_updates_feed, add_stop_names_to_vehicles,                    *)
(* build_datasets_from_feeds, build_vehicles_trips_joined_from_feeds       *)
(*                                                                         *)
(* A DataFrame is the sequence of its rows.  pd.DataFrame([]) has no       *)
(* columns, so reading a column of it raises KeyError.                     *)
(***************************************************************************)
\* The tram set with a bus line listed in it as well.
TRAM_ROUTES_with_bus_line ==
    { "1", "2", "3", "4", "5", "6", "7", "8", "9", "10A", "10B", "11",
      "12", "14", "15", "16", "17", "18", "19", "41", "43", "45", "F1" }

TRAM_ROUTES ==
    { "1", "2", "3", "4", "5", "6", "7", "8", "9", "10A", "10B", "11",
      "12", "14", "15", "16", "17", "18", "19", "41", "43", "45" }

BUS_ROUTES ==
    { "Z", "Z3", "Z13", "50A", "50B", "51A", "51B", "52", "53A", "53B",
      "54A", "54B", "55A", "55B", "56", "57", "58A", "58B", "59", "60A",
      "60B", "60C", "60D", "61", "62", "63", "64A", "64B", "65A", "65B",
      "66", "68", "69A", "69B", "70", "71A", "71B", "72A", "72B", "73",
      "75A", "75B", "76", "77", "78", "80A", "80B", "81A", "81B", "82A",
      "82B", "83", "84A", "84B", "85A", "85B", "86", "87A", "87B", "88A",
      "88B", "88C", "88D", "89", "90", "91A", "91B", "91C", "92A", "92B",
      "93", "94", "96", "97A", "97B", "99", "201", "202", "F1", "G1",
      "G2", "H", "W" }

NOCNE_BUS_ROUTES ==
    { "N1A", "N1B", "N2", "N3A", "N3B", "N4A", "N4B", "N5A", "N5B", "N6",
      "N7A", "N7B", "N8", "N9" }

classify_route_type(route_id) ==
    IF IsNone(route_id) THEN "unknown"
    ELSE IF Val(route_id) \in TRAM_ROUTES THEN "tramwaj"
    ELSE IF Val(route_id) \in BUS_ROUTES THEN "autobus"
    ELSE IF Val(route_id) \in NOCNE_BUS_ROUTES THEN "nocny_autobus"
    ELSE "unknown"

RECURSIVE Flatten(_)
Flatten(ss) == IF ss = <<>> THEN <<>> ELSE Head(ss) \o Flatten(Tail(ss))

\* The counter stepped for every entity of the feed, whatever it holds.
CountEveryEntity(feed, k, kind) == k

\* How many of the first k entities hold the sub-message `kind`.
RECURSIVE CountKind(_, _, _)
CountKind(feed, k, kind) ==
    IF k = 0 THEN 0
    ELSE CountKind(feed, k - 1, kind) + (IF feed[k].kind = kind THEN 1 ELSE 0)

\* The row of the k-th entity of the feed, which holds a vehicle.
VehicleRow(feed, k) ==
    LET v == feed[k]
    IN  [entity_id |-> CountKind(feed, k, "vehicle"),
         vehicle_id |-> v.vehicle_id,
         trip_id |-> v.trip_id,
         route_id |-> v.route_id,
         latitude |-> v.latitude,
         longitude |-> v.longitude,
         current_stop_id |-> v.stop_id,
         current_stop_sequence |-> v.current_stop_sequence,
         current_status |-> v.current_status,
         timestamp |-> v.timestamp]

parse_vehicle_positions_feed(feed) ==
    Flatten([k \in 1..Len(feed) |->
                IF feed[k].kind = "vehicle" THEN <<VehicleRow(feed, k)>> ELSE <<>>])

\* The delay read with 0 standing in for one that is not there.
ArrivalDelayOrZero(stu) ==
    IF ~IsNone(stu.arrival) /\ ~IsNone(Val(stu.arrival)) THEN Val(stu.arrival)
    ELSE Some(0)

\* stu.arrival.delay if the arrival is there and holds a delay.
ArrivalDelay(stu) ==
    IF ~IsNone(stu.arrival) /\ ~IsNone(Val(stu.arrival)) THEN Val(stu.arrival)
    ELSE None

\* The rows of the k-th entity of the feed, which holds a trip update.
TripRows(feed, k) ==
    LET tu == feed[k]
    IN  [n \in 1..Len(tu.stop_time_update) |->
            LET stu == tu.stop_time_update[n]
            IN  [entity_id |-> CountKind(feed, k, "trip_update"),
                 tu_trip_id |-> tu.trip_id,
                 tu_route_id |-> tu.route_id,
                 tu_direction_id |-> tu.direction_id,
                 tu_start_time |-> tu.start_time,
                 stop_id |-> stu.stop_id,
                 stop_sequence |-> stu.stop_sequence,
                 arrival_delay |-> ArrivalDelay(stu),
                 schedule_relationship |-> stu.schedule_relationship]]

parse_trip_updates_feed(feed) ==
    Flatten([k \in 1..Len(feed) |->
                IF feed[k].kind = "trip_update" THEN TripRows(feed, k) ELSE <<>>])

\* DataFrame.merge(how="left"): every left row once per matching right row, in
\* the order of the right rows, and once with the right columns null when
\* nothing matches; the order of the left rows is kept.
\* both[i] holds the merged rows of left row i, one per matching right row;
\* leftOnly[i] is left row i with the right columns null.
LeftMerge(both, leftOnly) ==
    Flatten([i \in 1..Len(leftOnly) |->
                IF both[i] = <<>> THEN <<leftOnly[i]>> ELSE both[i]])

\* stops.txt, read with stop_id as text.
StaticStops ==
    << [stop_id |-> "0052", stop_name |-> "Broniewskiego - Kraszewskiego",
        stop_lat |-> 51, stop_lon |-> 19],
       [stop_id |-> "0053", stop_name |-> "Broniewskiego - Tatrzanska",
        stop_lat |-> 52, stop_lon |-> 20] >>

\* Series.astype(str) of the stop id column: None becomes the text None.
StopIdText(o) == IF IsNone(o) THEN "None" ELSE Val(o)

\* The merge with stops.txt done as an inner join: a vehicle whose stop id is
\* in no row of stops.txt is dropped.
add_stop_names_inner(vp_df) ==
    LET Known(l) == \E n \in 1..Len(StaticStops) :
                        StaticStops[n].stop_id = StopIdText(l.current_stop_id)
        Stop(l) == CHOOSE st \in {StaticStops[n] : n \in 1..Len(StaticStops)} :
                       st.stop_id = StopIdText(l.current_stop_id)
        kept == SelectSeq(vp_df, Known)
    IN  [i \in 1..Len(kept) |->
            [entity_id |-> kept[i].entity_id, vehicle_id |-> kept[i].vehicle_id,
             trip_id |-> kept[i].trip_id, route_id |-> kept[i].route_id,
             latitude |-> kept[i].latitude, longitude |-> kept[i].longitude,
             current_stop_id |-> Some(StopIdText(kept[i].current_stop_id)),
             current_stop_sequence |-> kept[i].current_stop_sequence,
             current_status |-> kept[i].current_status,
             timestamp |-> kept[i].timestamp,
             current_stop_name |-> Some(Stop(kept[i]).stop_name),
             current_stop_lat |-> Some(Stop(kept[i]).stop_lat),
             current_stop_lon |-> Some(Stop(kept[i]).stop_lon)]]

add_stop_names_to_vehicles(vp_df) ==
    LET Matches(l, r) == StopIdText(l.current_stop_id) = r.stop_id
        Named(l, name, lat, lon) ==
            [entity_id |-> l.entity_id, vehicle_id |-> l.vehicle_id,
             trip_id |-> l.trip_id, route_id |-> l.route_id,
             latitude |-> l.latitude, longitude |-> l.longitude,
             current_stop_id |-> Some(StopIdText(l.current_stop_id)),
             current_stop_sequence |-> l.current_stop_sequence,
             current_status |-> l.current_status, timestamp |-> l.timestamp,
             current_stop_name |-> name, current_stop_lat |-> lat,
             current_stop_lon |-> lon]
        Both(l, r) == Named(l, Some(r.stop_name), Some(r.stop_lat), Some(r.stop_lon))
        LeftOnly(l) == Named(l, None, None, None)
        Found(l) == SelectSeq(StaticStops, LAMBDA r : Matches(l, r))
    IN  LeftMerge([i \in 1..Len(vp_df) |->
                      [n \in 1..Len(Found(vp_df[i])) |->
                          Both(vp_df[i], Found(vp_df[i])[n])]],
                  [i \in 1..Len(vp_df) |-> LeftOnly(vp_df[i])])

\* vp_df["route_type"] = vp_df["route_id"].apply(classify_route_type), then the
\* final columns of vehicles_df.
VehiclesDf(vp_df) ==
    [i \in 1..Len(vp_df) |->
        [entity_id |-> vp_df[i].entity_id, trip_id |-> vp_df[i].trip_id,
         route_id |-> vp_df[i].route_id, vehicle_id |-> vp_df[i].vehicle_id,
         latitude |-> vp_df[i].latitude, longitude |-> vp_df[i].longitude,
         current_stop_id |-> vp_df[i].current_stop_id,
         current_stop_name |-> vp_df[i].current_stop_name,
         current_stop_sequence |-> vp_df[i].current_stop_sequence,
         current_status |-> vp_df[i].current_status,
         route_type |-> classify_route_type(vp_df[i].route_id),
         timestamp |-> vp_df[i].timestamp,
         current_stop_lat |-> vp_df[i].current_stop_lat,
         current_stop_lon |-> vp_df[i].current_stop_lon]]

\* The final columns of trips_df.
TripsDf(tu_df) ==
    [i \in 1..Len(tu_df) |->
        [entity_id |-> tu_df[i].entity_id, tu_trip_id |-> tu_df[i].tu_trip_id,
         tu_route_id |-> tu_df[i].tu_route_id,
         tu_direction_id |-> tu_df[i].tu_direction_id,
         arrival_delay |-> tu_df[i].arrival_delay,
         stop_id |-> tu_df[i].stop_id,
         stop_sequence |-> tu_df[i].stop_sequence,
         schedule_relationship |-> tu_df[i].schedule_relationship,
         route_type |-> classify_route_type(tu_df[i].tu_route_id)]]

\* (vehicles_df, trips_df), or the KeyError of a column read from a DataFrame
\* that was built from no rows.
build_datasets_from_feeds(vf, tf) ==
    LET vp_df == parse_vehicle_positions_feed(vf)
        tu_df == parse_trip_updates_feed(tf)
    IN  IF vp_df = <<>>
        THEN [status |-> "KeyError", vehicles |-> <<>>, trips |-> <<>>]
        ELSE IF tu_df = <<>>
        THEN [status |-> "KeyError", vehicles |-> <<>>, trips |-> <<>>]
        ELSE [status |-> "ok",
              vehicles |-> VehiclesDf(add_stop_names_to_vehicles(vp_df)),
              trips |-> TripsDf(tu_df)]

\* A key column whose cells are all None is of dtype object; merge refuses an
\* object column of no strings against a column of numbers.
AllNone(column) == \A i \in 1..Len(column) : IsNone(column[i])

MergeKeysClash(vehicles, trips) ==
    AllNone([i \in 1..Len(vehicles) |-> vehicles[i].current_stop_sequence])
        # AllNone([i \in 1..Len(trips) |-> trips[i].stop_sequence])

\* One row of the merge of vehicles_df with trips_small.
JoinedRow(l, direction, delay, stop, seq, rel) ==
    [entity_id |-> l.entity_id, trip_id |-> l.trip_id, route_id |-> l.route_id,
     vehicle_id |-> l.vehicle_id, latitude |-> l.latitude,
     longitude |-> l.longitude, current_stop_id |-> l.current_stop_id,
     current_stop_name |-> l.current_stop_name,
     current_stop_sequence |-> l.current_stop_sequence,
     current_status |-> l.current_status, route_type |-> l.route_type,
     timestamp |-> l.timestamp, current_stop_lat |-> l.current_stop_lat,
     current_stop_lon |-> l.current_stop_lon,
     tu_direction_id |-> direction, arrival_delay |-> delay,
     stop_id |-> stop, stop_sequence |-> seq, schedule_relationship |-> rel,
     arrival_delay_minutes |-> seconds_to_minutes_custom(delay)]

\* The merge keys: null cells compare equal to each other in merge.
JoinKeysMatch(l, r) ==
    /\ l.trip_id = r.tu_trip_id
    /\ l.current_stop_sequence = r.stop_sequence

build_vehicles_trips_joined_from_feeds(vf, tf) ==
    LET ds == build_datasets_from_feeds(vf, tf)
        Both(l, r) == JoinedRow(l, r.tu_direction_id, r.arrival_delay, r.stop_id,
                                r.stop_sequence, r.schedule_relationship)
        LeftOnly(l) == JoinedRow(l, None, None, None, None, None)
        Found(l) == SelectSeq(ds.trips, LAMBDA r : JoinKeysMatch(l, r))
    IN  IF ds.status # "ok" THEN [status |-> ds.status, rows |-> <<>>]
        ELSE IF MergeKeysClash(ds.vehicles, ds.trips)
        THEN [status |-> "ValueError", rows |-> <<>>]
        ELSE [status |-> "ok",
              rows |-> LeftMerge([i \in 1..Len(ds.vehicles) |->
                                     [n \in 1..Len(Found(ds.vehicles[i])) |->
                                         Both(ds.vehicles[i], Found(ds.vehicles[i])[n])]],
                                 [i \in 1..Len(ds.vehicles) |->
                                     LeftOnly(ds.vehicles[i])])]

\* ---- inputs
VEnt(vid, trip, route, lat, lon, stop, seq, status, ts) ==
    [kind |-> "vehicle", vehicle_id |-> vid, trip_id |-> trip, route_id |-> route,
     latitude |-> lat, longitude |-> lon, stop_id |-> stop,
     current_stop_sequence |-> seq, current_status |-> status, timestamp |-> ts]

Stu(stop, seq, arrival, rel) ==
    [stop_id |-> stop, stop_sequence |-> seq, arrival |-> arrival,
     schedule_relationship |-> rel]

TEnt(trip, route, direction, start, stus) ==
    [kind |-> "trip_update", trip_id |-> trip, route_id |-> route,
     direction_id |-> direction, start_time |-> start, stop_time_update |-> stus]

\* An entity that holds neither a vehicle nor a trip update.
AlertEntity == [kind |-> "alert"]

VehicleEntities ==
    { VEnt(Some("v1"), Some("t1"), Some("12"), Some(51), Some(19), Some("0052"),
           Some(1), Some(1), Some(1000)),
      VEnt(Some("v2"), Some("t1"), Some("F1"), Some(0), Some(0), Some("9999"),
           Some(2), Some(0), Some(0)),
      VEnt(Some("v3"), Some("t2"), Some("N8"), Some(51), Some(19), None,
           None, Some(2), Some(2000)),
      VEnt(Some("v4"), None, Some("X9"), Some(51), Some(19), Some("0053"),
           Some(1), Some(2), Some(2000)),
      VEnt(None, None, None, None, None, None, None, None, None),
      AlertEntity }

TripEntities ==
    { TEnt(Some("t1"), Some("12"), Some(0), Some("08:00"),
           << Stu(Some("0052"), Some(1), Some(Some(-70)), Some(0)),
              Stu(Some("0053"), Some(2), Some(Some(95)), Some(0)) >>),
      TEnt(Some("t1"), Some("12"), None, None,
           << Stu(Some("0052"), Some(1), Some(Some(30)), None) >>),
      TEnt(Some("t2"), Some("N8"), Some(1), None,
           << Stu(None, None, None, None),
              Stu(Some("0053"), None, Some(Some(60)), Some(0)) >>),
      TEnt(None, None, None, None,
           << Stu(Some("0053"), Some(1), Some(None), Some(0)) >>),
      TEnt(Some("t3"), Some("52"), Some(0), None, << >>),
      AlertEntity }

MaxEntities == 2

JoinIdle ==
    /\ vehicle_feed = <<>>
    /\ trip_feed = <<>>
    /\ joined = [status |-> "none", rows |-> <<>>]
    /\ jpc = "idle"

JoinInit ==
    /\ vehicle_feed \in SeqsUpTo(VehicleEntities, MaxEntities)
    /\ trip_feed \in SeqsUpTo(TripEntities, MaxEntities)
    /\ joined = [status |-> "none", rows |-> <<>>]
    /\ jpc = "call"

BuildJoined ==
    /\ jpc = "call"
    /\ joined' = build_vehicles_trips_joined_from_feeds(vehicle_feed, trip_feed)
    /\ jpc' = "ret"
    /\ UNCHANGED <<vehicle_feed, trip_feed, notJoin>>

(***************************************************************************)
(* veh_pos: fetch_vehicle_positions, continuous_fetch_loop,                *)
(* get_vehicle_positions                                                   *)
(*                                                                         *)
(* One polling thread (main calls fetch_vehicle_positions once and then    *)
(* starts continuous_fetch_loop) and the request handlers of the API.      *)
(***************************************************************************)
PEnt(vid, trip, route, lat, ts) ==
    [kind |-> "vehicle", vehicle_id |-> vid, trip_id |-> trip, route_id |-> route,
     latitude |-> lat, longitude |-> lat, bearing |-> None, speed |-> None,
     timestamp |-> ts]

Feed(version, ts, entities) ==
    [version |-> version, timestamp |-> ts, entity |-> entities]

\* What the server may answer with: the bytes, and the FeedMessage that
\* ParseFromString makes of them (None when it raises DecodeError).
Payloads ==
    { [content |-> <<10, 0>>,
       feed |-> Some(Feed("2.0", Some(100),
                          << PEnt(Some("v1"), Some("t1"), Some("12"), Some(51),
                                  Some(1000)) >>))],
      [content |-> <<10, 1>>,
       feed |-> Some(Feed("2.0", None,
                          << AlertEntity,
                             PEnt(Some("v2"), None, None, None, None) >>))],
      [content |-> <<255>>, feed |-> None] }

\* vehicles_data: one dict per entity that holds a vehicle.
VehiclesData(feed) ==
    Flatten([k \in 1..Len(feed.entity) |->
                IF feed.entity[k].kind = "vehicle"
                THEN << [vehicle_id |-> feed.entity[k].vehicle_id,
                         trip_id |-> feed.entity[k].trip_id,
                         route_id |-> feed.entity[k].route_id,
                         latitude |-> feed.entity[k].latitude,
                         longitude |-> feed.entity[k].longitude,
                         bearing |-> feed.entity[k].bearing,
                         speed |-> feed.entity[k].speed,
                         timestamp |-> feed.entity[k].timestamp] >>
                ELSE <<>>])

\* feed.header.timestamp if it is there, else int(time.time()).
FeedTimestamp(feed, now) ==
    IF IsNone(feed.timestamp) THEN now ELSE Val(feed.timestamp)

\* The dict assigned to latest_response_data.
Snapshot(content, feed, now) ==
    [raw_content_hex |-> Some(Hex(content)),
     feed_timestamp |-> FeedTimestamp(feed, now),
     fetched_at |-> now,
     header |-> [gtfs_realtime_version |-> feed.version,
                 timestamp |-> FeedTimestamp(feed, now)],
     vehicles |-> VehiclesData(feed),
     vehicle_count |-> Len(VehiclesData(feed))]

\* An update of the published dict key by key that stops half-way.
PublishInPlace(old, new) ==
    IF IsNone(old) THEN Some(new)
    ELSE Some([Val(old) EXCEPT !.vehicles = new.vehicles,
                               !.vehicle_count = new.vehicle_count,
                               !.fetched_at = new.fetched_at])

\* latest_response_data = {...}: the name is bound to the new dict.
Publish(old, new) == Some(new)

\* A failed cycle that blanks what was published.
ClearOnFailure(old) == None

\* Both except clauses print and return False: the global keeps its value.
KeepOnFailure(old) == old

\* response_data.pop('raw_content_hex', None)
PopRaw(d) == [d EXCEPT !.raw_content_hex = None]

\* The published dict after a handler's pop, had response_data been the
\* published dict itself and no copy of it.
PublishedAfterPopAliased(published, include_raw) ==
    IF include_raw THEN published ELSE Some(PopRaw(Val(published)))

\* The published dict after a handler's pop: response_data is the dict made
\* by latest_response_data.copy(), so the pop leaves the published one alone.
PublishedAfterPop(published, include_raw) == published

Readers == {"r1", "r2"}

\* The polling cycles explored.
MaxCycles == 3

PollIdle ==
    /\ latest_response_data = None
    /\ db_lock = "free"
    /\ ppc = "idle"
    /\ cycle = 0
    /\ response = None
    /\ built = None
    /\ outcome = "none"
    /\ at_cycle_start = None
    /\ hist = {}
    /\ rd_pc = [r \in Readers |-> "idle"]
    /\ rd_raw = [r \in Readers |-> FALSE]
    /\ rd_copy = [r \in Readers |-> None]
    /\ rd_resp = [r \in Readers |-> [code |-> 0, body |-> None]]

PollInit ==
    /\ latest_response_data = None
    /\ db_lock = "free"
    /\ ppc = "fetch"
    /\ cycle = 1
    /\ response = None
    /\ built = None
    /\ outcome = "none"
    /\ at_cycle_start = None
    /\ hist = {}
    /\ rd_pc = [r \in Readers |-> "idle"]
    /\ rd_raw = [r \in Readers |-> FALSE]
    /\ rd_copy = [r \in Readers |-> None]
    /\ rd_resp = [r \in Readers |-> [code |-> 0, body |-> None]]

\* requests.get / raise_for_status raise (network error, timeout, status
\* that is not 2xx): except RequestException, return False.
FetchFails ==
    /\ ppc = "fetch"
    /\ latest_response_data' = KeepOnFailure(latest_response_data)
    /\ outcome' = "fetch_failed"
    /\ ppc' = "sleep"
    /\ UNCHANGED <<db_lock, cycle, response, built, at_cycle_start, hist,
                   readerVars, notPoll>>

\* The request succeeds: response.content is in hand.
FetchOk ==
    /\ ppc = "fetch"
    /\ \E p \in Payloads : response' = Some(p.content)
    /\ ppc' = "parse"
    /\ UNCHANGED <<latest_response_data, db_lock, cycle, built, outcome,
                   at_cycle_start, hist, readerVars, notPoll>>

\* ParseFromString raises: except Exception, return False.
DecodeFails ==
    /\ ppc = "parse"
    /\ \E p \in Payloads : p.content = Val(response) /\ IsNone(p.feed)
    /\ latest_response_data' = KeepOnFailure(latest_response_data)
    /\ outcome' = "decode_failed"
    /\ response' = None
    /\ ppc' = "sleep"
    /\ UNCHANGED <<db_lock, cycle, built, at_cycle_start, hist, readerVars,
                   notPoll>>

\* The feed parses; feed_timestamp and vehicles_data are computed.
ParseOk ==
    /\ ppc = "parse"
    /\ \E p \in Payloads :
          /\ p.content = Val(response)
          /\ ~IsNone(p.feed)
          /\ built' = Some(Snapshot(p.content, Val(p.feed), cycle))
    /\ ppc' = "lock"
    /\ UNCHANGED <<latest_response_data, db_lock, cycle, response, outcome,
                   at_cycle_start, hist, readerVars, notPoll>>

\* with db_lock:
PollerAcquire ==
    /\ ppc = "lock"
    /\ db_lock = "free"
    /\ db_lock' = "poller"
    /\ ppc' = "publish"
    /\ UNCHANGED <<latest_response_data, cycle, response, built, outcome,
                   at_cycle_start, hist, readerVars, notPoll>>

\* latest_response_data = {...}
PollerPublish ==
    /\ ppc = "publish"
    /\ latest_response_data' = Publish(latest_response_data, Val(built))
    /\ hist' = hist \cup {Val(built)}
    /\ ppc' = "unlock"
    /\ UNCHANGED <<db_lock, cycle, response, built, outcome, at_cycle_start,
                   readerVars, notPoll>>

\* The with block is left.
PollerRelease ==
    /\ ppc = "unlock"
    /\ db_lock' = "free"
    /\ ppc' = "save"
    /\ UNCHANGED <<latest_response_data, cycle, response, built, outcome,
                   at_cycle_start, hist, readerVars, notPoll>>

\* save_to_database and the prints: return True, or an sqlite error caught
\* by except Exception, after the snapshot has been published.
PollerSave ==
    /\ ppc = "save"
    /\ \E ok \in BOOLEAN : outcome' = IF ok THEN "ok" ELSE "db_failed"
    /\ response' = None
    /\ built' = None
    /\ ppc' = "sleep"
    /\ UNCHANGED <<latest_response_data, db_lock, cycle, at_cycle_start, hist,
                   readerVars, notPoll>>

\* time.sleep(FETCH_INTERVAL), then the next call of fetch_vehicle_positions.
PollerTick ==
    /\ ppc = "sleep"
    /\ cycle < MaxCycles
    /\ cycle' = cycle + 1
    /\ at_cycle_start' = latest_response_data
    /\ ppc' = "fetch"
    /\ UNCHANGED <<latest_response_data, db_lock, response, built, outcome,
                   hist, readerVars, notPoll>>

\* GET /api/vehicle_positions arrives, with or without include_raw.
ReaderRequest(r) ==
    /\ rd_pc[r] = "idle"
    /\ \E inc \in BOOLEAN : rd_raw' = [rd_raw EXCEPT ![r] = inc]
    /\ rd_pc' = [rd_pc EXCEPT ![r] = "lock"]
    /\ rd_resp' = [rd_resp EXCEPT ![r] = [code |-> 0, body |-> None]]
    /\ UNCHANGED <<latest_response_data, db_lock, pollerVars, rd_copy, notPoll>>

\* with db_lock:
ReaderAcquire(r) ==
    /\ rd_pc[r] = "lock"
    /\ db_lock = "free"
    /\ db_lock' = r
    /\ rd_pc' = [rd_pc EXCEPT ![r] = "check"]
    /\ UNCHANGED <<latest_response_data, pollerVars, rd_raw, rd_copy, rd_resp,
                   notPoll>>

\* if latest_response_data is None: return 404
ReaderNoData(r) ==
    /\ rd_pc[r] = "check"
    /\ IsNone(latest_response_data)
    /\ rd_resp' = [rd_resp EXCEPT ![r] = [code |-> 404, body |-> None]]
    /\ db_lock' = "free"
    /\ rd_pc' = [rd_pc EXCEPT ![r] = "idle"]
    /\ UNCHANGED <<latest_response_data, pollerVars, rd_raw, rd_copy, notPoll>>

\* response_data = latest_response_data.copy()
ReaderCopy(r) ==
    /\ rd_pc[r] = "check"
    /\ ~IsNone(latest_response_data)
    /\ rd_copy' = [rd_copy EXCEPT ![r] = latest_response_data]
    /\ rd_pc' = [rd_pc EXCEPT ![r] = "pop"]
    /\ UNCHANGED <<latest_response_data, db_lock, pollerVars, rd_raw, rd_resp,
                   notPoll>>

\* if 'include_raw' not in request.args: response_data.pop(...)
ReaderPop(r) ==
    /\ rd_pc[r] = "pop"
    /\ rd_copy' = [rd_copy EXCEPT ![r] =
                      IF rd_raw[r] THEN @ ELSE Some(PopRaw(Val(@)))]
    /\ latest_response_data' = PublishedAfterPop(latest_response_data, rd_raw[r])
    /\ rd_pc' = [rd_pc EXCEPT ![r] = "respond"]
    /\ UNCHANGED <<db_lock, pollerVars, rd_raw, rd_resp, notPoll>>

\* return jsonify(response_data); the with block is left.
ReaderRespond(r) ==
    /\ rd_pc[r] = "respond"
    /\ rd_resp' = [rd_resp EXCEPT ![r] = [code |-> 200, body |-> rd_copy[r]]]
    /\ rd_copy' = [rd_copy EXCEPT ![r] = None]
    /\ db_lock' = "free"
    /\ rd_pc' = [rd_pc EXCEPT ![r] = "idle"]
    /\ UNCHANGED <<latest_response_data, pollerVars, rd_raw, notPoll>>

(***************************************************************************)
(* backend_map: scraper_thread, process_utrudnienia_with_llm,              *)
(* save_utrudnienia_to_file, save_utrudnienia_json;                        *)
(* traffic_scraper: TrafficInfoScraper.scrape_mpk_utrudnienia              *)
(*                                                                         *)
(* The advisory page is taken as the list of advisories its table rows     *)
(* hold; an advisory is the list of its lines with the text of the         *)
(* disruption.                                                             *)
(***************************************************************************)
Advisory(lines, text) == [lines |-> lines, utrudnienie |-> text]

\* What the advisory page may hold.
Pages ==
    { <<>>,
      << Advisory(<<"2">>, "zatrzymanie ruchu") >>,
      << Advisory(<<"2", "12">>, "objazd"), Advisory(<<"69A">>, "wstrzymanie") >> }

\* Every line named on the page.
LinesOf(page) == UNION { { a.lines[k] : k \in 1..Len(a.lines) } :
                         a \in { page[i] : i \in 1..Len(page) } }

\* scrape_mpk_utrudnienia when session.get, raise_for_status or the parsing
\* raises: its except clause prints the exception and returns the empty list.
\* Some(list) is a returned list, None an exception passed on to the caller.
ScrapeOnFailurePassedOn(exception) == None

ScrapeOnFailure(exception) == Some(<<>>)

\* process_utrudnienia_with_llm: the answers it can return for a list of
\* advisories.  No advisory: the empty list of lines without a call.  Else the
\* lines of the JSON the model answers with.
LlmAnswers(list) ==
    IF list = <<>> THEN { [disabled_lines |-> {}] }
    ELSE { [disabled_lines |-> ls] : ls \in SUBSET LinesOf(list) }

\* process_utrudnienia_with_llm when the call raises, the answer holds no
\* JSON or json.loads raises: the empty list of lines.
LlmOnFailure == [disabled_lines |-> {}]

\* The content save_utrudnienia_to_file writes.
TextContent(list, structured, now) ==
    [updated |-> now, utrudnienia |-> list,
     disabled_lines |-> IF IsNone(structured) THEN None
                        ELSE Some(Val(structured).disabled_lines)]

\* The content save_utrudnienia_json writes.
JsonContent(structured, now) ==
    [updated_at |-> now,
     disabled_lines |-> IF IsNone(structured) THEN {}
                        ELSE Val(structured).disabled_lines]

\* The scraper cycles explored.
MaxScrapes == 3

ScrapeIdle ==
    /\ utruds_file = None
    /\ utruds_json_file = None
    /\ spc = "idle"
    /\ scycle = 0
    /\ utrudnienia = None
    /\ structured_data = None
    /\ scrape_failed = FALSE
    /\ files_before = <<None, None>>
    /\ llm_failed = FALSE
    /\ write_failed = FALSE

ScrapeInit ==
    /\ utruds_file = None
    /\ utruds_json_file = None
    /\ spc = "scrape"
    /\ scycle = 1
    /\ utrudnienia = None
    /\ structured_data = None
    /\ scrape_failed = FALSE
    /\ files_before = <<None, None>>
    /\ llm_failed = FALSE
    /\ write_failed = FALSE

\* scraper.scrape_mpk_utrudnienia(): the page is fetched and parsed.
ScrapeOk ==
    /\ spc = "scrape"
    /\ \E page \in Pages : utrudnienia' = Some(page)
    /\ scrape_failed' = FALSE
    /\ spc' = "llm"
    /\ UNCHANGED <<utruds_file, utruds_json_file, scycle, structured_data,
                   files_before, llm_failed, write_failed, notScrape>>

\* scraper.scrape_mpk_utrudnienia(): session.get or raise_for_status raises.
\* A returned list goes on to the LLM and the saves; a connection error that
\* reached scraper_thread would be caught by its except clause, which sets
\* should_save = False and writes nothing.
ScrapeFails ==
    /\ spc = "scrape"
    /\ scrape_failed' = TRUE
    /\ IF IsNone(ScrapeOnFailure("ConnectionError"))
       THEN /\ utrudnienia' = None
            /\ spc' = "sleep"
       ELSE /\ utrudnienia' = ScrapeOnFailure("ConnectionError")
            /\ spc' = "llm"
    /\ UNCHANGED <<utruds_file, utruds_json_file, scycle, structured_data,
                   files_before, llm_failed, write_failed, notScrape>>

\* structured_data = process_utrudnienia_with_llm(utrudnienia)
ScrapeLlm ==
    /\ spc = "llm"
    /\ \E answer \in LlmAnswers(Val(utrudnienia)) :
          structured_data' = Some(answer)
    /\ llm_failed' = FALSE
    /\ spc' = "save_txt"
    /\ UNCHANGED <<utruds_file, utruds_json_file, scycle, utrudnienia,
                   scrape_failed, files_before, write_failed, notScrape>>

\* structured_data = process_utrudnienia_with_llm(utrudnienia), the call to
\* the LLM made for a list that is not empty raising or giving no JSON.
ScrapeLlmFails ==
    /\ spc = "llm"
    /\ Val(utrudnienia) # <<>>
    /\ structured_data' = Some(LlmOnFailure)
    /\ llm_failed' = TRUE
    /\ spc' = "save_txt"
    /\ UNCHANGED <<utruds_file, utruds_json_file, scycle, utrudnienia,
                   scrape_failed, files_before, write_failed, notScrape>>

\* save_utrudnienia_to_file: the file is written, or open raises and the
\* error is printed.
ScrapeSaveText ==
    /\ spc = "save_txt"
    /\ \E written \in BOOLEAN :
          /\ utruds_file' = IF written
                            THEN Some(TextContent(Val(utrudnienia),
                                                  structured_data, scycle))
                            ELSE utruds_file
          /\ write_failed' = (write_failed \/ ~written)
    /\ spc' = "save_json"
    /\ UNCHANGED <<utruds_json_file, scycle, utrudnienia, structured_data,
                   scrape_failed, files_before, llm_failed, notScrape>>

\* save_utrudnienia_json: the file is written, or open raises and False is
\* returned.
ScrapeSaveJson ==
    /\ spc = "save_json"
    /\ \E written \in BOOLEAN :
          /\ utruds_json_file' = IF written
                                 THEN Some(JsonContent(structured_data, scycle))
                                 ELSE utruds_json_file
          /\ write_failed' = (write_failed \/ ~written)
    /\ spc' = "sleep"
    /\ UNCHANGED <<utruds_file, scycle, utrudnienia, structured_data,
                   scrape_failed, files_before, llm_failed, notScrape>>

\* time.sleep(60), then the next pass of the while loop.
ScrapeTick ==
    /\ spc = "sleep"
    /\ scycle < MaxScrapes
    /\ scycle' = scycle + 1
    /\ files_before' = <<utruds_file, utruds_json_file>>
    /\ utrudnienia' = None
    /\ structured_data' = None
    /\ scrape_failed' = FALSE
    /\ llm_failed' = FALSE
    /\ write_failed' = FALSE
    /\ spc' = "scrape"
    /\ UNCHANGED <<utruds_file, utruds_json_file, notScrape>>

(***************************************************************************)
(* backend_map.get_all_data with pipeline.fetch_feed                       *)
(*                                                                         *)
(* The handler fetches the two feeds into vehicle_feed and trip_feed and   *)
(* builds the joined rows into joined.                                     *)
(***************************************************************************)
\* An answer of the handler: the status code with the rows returned or the
\* detail of the HTTPException raised.
Answer(code, rows, detail) == [code |-> code, rows |-> rows, detail |-> detail]

\* fetch_feed on a payload: Some(entities) when ParseFromString accepts the
\* bytes, None when it raises DecodeError; fetch_feed has no except clause.
fetch_feed(payload) ==
    IF IsNone(payload) THEN [status |-> "DecodeError", feed |-> <<>>]
    ELSE [status |-> "ok", feed |-> Val(payload)]

\* The try/except of get_all_data: the records of the joined frame, or
\* HTTPException(500) for any exception.
get_all_data(status, rows) ==
    IF status = "ok" THEN Answer(200, rows, "")
    ELSE Answer(500, <<>>, status)

DataIdle ==
    /\ gpc = "idle"
    /\ g_response = Answer(0, <<>>, "")
    /\ g_malformed = FALSE

DataInit ==
    /\ gpc = "fetch_vehicles"
    /\ g_response = Answer(0, <<>>, "")
    /\ g_malformed = FALSE
    /\ vehicle_feed = <<>>
    /\ trip_feed = <<>>
    /\ joined = [status |-> "none", rows |-> <<>>]
    /\ jpc = "idle"

\* vehicle_feed = fetch_feed(VEHICLE_POSITIONS_URL)
GetDataFetchVehicles ==
    /\ gpc = "fetch_vehicles"
    /\ \E feed \in SeqsUpTo(VehicleEntities, MaxEntities) :
          vehicle_feed' = fetch_feed(Some(feed)).feed
    /\ gpc' = "fetch_trips"
    /\ UNCHANGED <<trip_feed, joined, jpc, g_response, g_malformed, notData>>

\* trip_feed = fetch_feed(TRIP_UPDATES_URL)
GetDataFetchTrips ==
    /\ gpc = "fetch_trips"
    /\ \E feed \in SeqsUpTo(TripEntities, MaxEntities) :
          trip_feed' = fetch_feed(Some(feed)).feed
    /\ gpc' = "build"
    /\ UNCHANGED <<vehicle_feed, joined, jpc, g_response, g_malformed, notData>>

\* requests.get or raise_for_status raises in fetch_feed, for either feed.
GetDataRequestFails ==
    /\ gpc \in {"fetch_vehicles", "fetch_trips"}
    /\ g_response' = get_all_data("RequestException", <<>>)
    /\ gpc' = "ret"
    /\ UNCHANGED <<joinVars, g_malformed, notData>>

\* ParseFromString raises in fetch_feed, for either feed.
GetDataDecodeFails ==
    /\ gpc \in {"fetch_vehicles", "fetch_trips"}
    /\ g_malformed' = TRUE
    /\ g_response' = get_all_data(fetch_feed(None).status, <<>>)
    /\ gpc' = "ret"
    /\ UNCHANGED <<joinVars, notData>>

\* joined_df = build_vehicles_trips_joined_from_feeds(...), then its records.
GetDataBuild ==
    /\ gpc = "build"
    /\ joined' = build_vehicles_trips_joined_from_feeds(vehicle_feed, trip_feed)
    /\ g_response' = get_all_data(joined'.status, joined'.rows)
    /\ gpc' = "ret"
    /\ UNCHANGED <<vehicle_feed, trip_feed, jpc, g_malformed, notData>>

(***************************************************************************)
(* alerts_monitor: fetch_alerts, fetch_vehicle_positions,                  *)
(* continuous_fetch_loop                                                   *)
(***************************************************************************)
\* What a fetch function can raise inside its try block: requests.get or
\* raise_for_status, ParseFromString, and open/write or fromtimestamp.
FetchExceptions == {"RequestException", "DecodeError", "OSError"}

\* The except clauses with `except Exception` left out.
HandlesRequestErrorsOnly(exception) == exception = "RequestException"

\* except requests.exceptions.RequestException / except Exception: both
\* print and return False.
Handles(exception) ==
    \/ exception = "RequestException"
    \/ exception \in FetchExceptions

\* The feeds a URL may serve: the header timestamp, and whether an entity
\* holds the sub-message the function looks for.
MonitorFeeds ==
    { [timestamp |-> ts, found |-> f] : ts \in {None, Some(100)}, f \in BOOLEAN }

\* The file written for a feed: named by the feed timestamp, else by the clock.
SavedFile(folder, feed, now) ==
    <<folder, IF IsNone(feed.timestamp) THEN now ELSE Val(feed.timestamp)>>

\* The ticks of the loop are counted round a ring of this size.
MaxTicks == 2

AlertInit ==
    /\ apc = "alerts"
    /\ atick = 1
    /\ a_alerts = "none"
    /\ a_positions = "none"
    /\ a_saved = {}

\* fetch_alerts() raises inside its try block.
AlertsFail ==
    /\ apc = "alerts"
    /\ \E exception \in FetchExceptions :
          apc' = IF Handles(exception) THEN "positions" ELSE "crashed"
    /\ a_alerts' = "failed"
    /\ a_positions' = "none"
    /\ UNCHANGED <<atick, a_saved, notAlert>>

\* fetch_alerts() returns True: the raw bytes are saved when the feed holds
\* an alert.
AlertsOk ==
    /\ apc = "alerts"
    /\ \E feed \in MonitorFeeds :
          a_saved' = IF feed.found
                     THEN a_saved \cup {SavedFile("saved_alerts", feed, atick)}
                     ELSE a_saved
    /\ a_alerts' = "ok"
    /\ a_positions' = "none"
    /\ apc' = "positions"
    /\ UNCHANGED <<atick, notAlert>>

\* fetch_vehicle_positions() raises inside its try block.
PositionsFail ==
    /\ apc = "positions"
    /\ \E exception \in FetchExceptions :
          apc' = IF Handles(exception) THEN "sleep" ELSE "crashed"
    /\ a_positions' = "failed"
    /\ UNCHANGED <<atick, a_alerts, a_saved, notAlert>>

\* fetch_vehicle_positions() returns True: the raw bytes are saved when the
\* feed holds a trip update.
PositionsOk ==
    /\ apc = "positions"
    /\ \E feed \in MonitorFeeds :
          a_saved' = IF feed.found
                     THEN a_saved \cup
                              {SavedFile("saved_vehicle_positions", feed, atick)}
                     ELSE a_saved
    /\ a_positions' = "ok"
    /\ apc' = "sleep"
    /\ UNCHANGED <<atick, a_alerts, notAlert>>

\* time.sleep(FETCH_INTERVAL), then the next pass of the while loop.
MonitorTick ==
    /\ apc = "sleep"
    /\ atick' = (atick % MaxTicks) + 1
    /\ apc' = "alerts"
    /\ UNCHANGED <<a_alerts, a_positions, a_saved, notAlert>>

AlertIdle ==
    /\ apc = "idle"
    /\ atick = 0
    /\ a_alerts = "none"
    /\ a_positions = "none"
    /\ a_saved = {}

MoreIdle == ScrapeIdle /\ DataIdle /\ AlertIdle

DecIdle ==
    /\ data = <<>>
    /\ di = 0
    /\ results = <<>>
    /\ diters = 0
    /\ dpc = "idle"

RoundIdle ==
    /\ sec = None
    /\ minutes = None
    /\ rpc = "idle"

RoundInit ==
    /\ sec \in {None} \cup {Some(s) : s \in (-MaxSec)..MaxSec}
    /\ minutes = None
    /\ rpc = "call"

SecondsToMinutes ==
    /\ rpc = "call"
    /\ minutes' = seconds_to_minutes_custom(sec)
    /\ rpc' = "ret"
    /\ UNCHANGED <<sec, notRound>>

InitRound == RoundInit /\ DecIdle /\ MatchIdle /\ JoinIdle /\ PollIdle /\ MoreIdle
NextRound == SecondsToMinutes
SpecRound == InitRound /\ [][NextRound]_vars

InitDecode == DecInit /\ RoundIdle /\ MatchIdle /\ JoinIdle /\ PollIdle /\ MoreIdle
NextDecode == DecodeField \/ DecodeReturn
SpecDecode == InitDecode /\ [][NextDecode]_vars

InitMatch == MatchInit /\ RoundIdle /\ DecIdle /\ JoinIdle /\ PollIdle /\ MoreIdle
NextMatch ==
    \/ EnrichNoRoute
    \/ EnrichFetch
    \/ EnrichFetchFails
    \/ EnrichSkipStep
    \/ EnrichTransitStep
    \/ EnrichReturn
SpecMatch == InitMatch /\ [][NextMatch]_vars

InitJoin == JoinInit /\ RoundIdle /\ DecIdle /\ MatchIdle /\ PollIdle /\ MoreIdle
NextJoin == BuildJoined
SpecJoin == InitJoin /\ [][NextJoin]_vars

InitPoll == PollInit /\ RoundIdle /\ DecIdle /\ MatchIdle /\ JoinIdle /\ MoreIdle
NextPoll ==
    \/ FetchFails
    \/ FetchOk
    \/ DecodeFails
    \/ ParseOk
    \/ PollerAcquire
    \/ PollerPublish
    \/ PollerRelease
    \/ PollerSave
    \/ PollerTick
    \/ \E r \in Readers :
          \/ ReaderRequest(r)
          \/ ReaderAcquire(r)
          \/ ReaderNoData(r)
          \/ ReaderCopy(r)
          \/ ReaderPop(r)
          \/ ReaderRespond(r)
SpecPoll == InitPoll /\ [][NextPoll]_vars

InitScrape ==
    /\ ScrapeInit /\ DataIdle /\ AlertIdle
    /\ RoundIdle /\ DecIdle /\ MatchIdle /\ JoinIdle /\ PollIdle
NextScrape ==
    \/ ScrapeOk
    \/ ScrapeFails
    \/ ScrapeLlm
    \/ ScrapeLlmFails
    \/ ScrapeSaveText
    \/ ScrapeSaveJson
    \/ ScrapeTick
SpecScrape == InitScrape /\ [][NextScrape]_vars

InitData ==
    /\ DataInit /\ ScrapeIdle /\ AlertIdle
    /\ RoundIdle /\ DecIdle /\ MatchIdle /\ PollIdle
NextData ==
    \/ GetDataFetchVehicles
    \/ GetDataFetchTrips
    \/ GetDataRequestFails
    \/ GetDataDecodeFails
    \/ GetDataBuild
SpecData == InitData /\ [][NextData]_vars

InitAlerts ==
    /\ AlertInit /\ ScrapeIdle /\ DataIdle
    /\ RoundIdle /\ DecIdle /\ MatchIdle /\ JoinIdle /\ PollIdle
NextAlerts ==
    \/ AlertsFail
    \/ AlertsOk
    \/ PositionsFail
    \/ PositionsOk
    \/ MonitorTick
\* The loop is the only thing its thread runs, and every call in it returns
\* (the requests carry a timeout), so the loop always takes its next step.
SpecAlerts == InitAlerts /\ [][NextAlerts]_vars /\ WF_vars(NextAlerts)

(***************************************************************************)
(* The reference encoder of the wire format, and the decoder run on what   *)
(* it writes.  A field is (field_number, wire_type, value): the value of a *)
(* varint field is a natural number, of a fixed-width field the floating   *)
(* value of UnpackFloat, of a length-delimited field its bytes.            *)
(***************************************************************************)
\* Base-128 varint, least significant group first.
RECURSIVE EncodeVarint(_)
EncodeVarint(n) ==
    IF n < 128 THEN <<n>>
    ELSE <<128 + (n % 128)>> \o EncodeVarint(n \div 128)

\* The key of a field is the varint of (field_number << 3) | wire_type.
EncodeField(f) ==
    EncodeVarint(f.field_number * 8 + f.wire_type)
        \o CASE f.wire_type = 0 -> EncodeVarint(f.value)
             [] f.wire_type = 2 -> EncodeVarint(Len(f.value)) \o f.value
             [] OTHER -> Reverse(f.value.bits)

EncodeFields(fs) == Flatten([k \in 1..Len(fs) |-> EncodeField(fs[k])])

Field(n, wt, v) == [field_number |-> n, wire_type |-> wt, value |-> v]

\* The field numbers written: one-byte keys (1, 15) and a two-byte key (16).
FieldNumbers == {1, 15, 16}

FieldValues(wt) ==
    CASE wt = 0 -> {0, 1, 300}
      [] wt = 1 -> { UnpackFloat(8, <<0, 0, 0, 0, 0, 0, 240, 63>>) }
      [] wt = 2 -> { <<>>, <<8, 1>> }
      [] OTHER -> { UnpackFloat(4, <<0, 0, 128, 63>>) }

Fields ==
    UNION { { Field(n, wt, v) : n \in FieldNumbers, v \in FieldValues(wt) } :
            wt \in {0, 1, 2, 5} }

\* The longest list of fields encoded.
MaxFields == 2

RoundTripInit ==
    /\ data \in { EncodeFields(fs) : fs \in SeqsUpTo(Fields, MaxFields) }
    /\ di = 0
    /\ results = <<>>
    /\ diters = 0
    /\ dpc = "loop"

InitRoundTrip ==
    RoundTripInit /\ RoundIdle /\ MatchIdle /\ JoinIdle /\ PollIdle /\ MoreIdle
SpecRoundTrip == InitRoundTrip /\ [][NextDecode]_vars

(***************************************************************************)
(* Claims about the polling loop and its readers                           *)
(***************************************************************************)

\* C1: once a snapshot has been published, a later cycle whose fetch fails
\* (network error, timeout, status that is not 2xx) or whose payload fails to
\* decode leaves the published snapshot as it was before that cycle.
C1_FailedCycleKeepsSnapshot ==
    (ppc = "sleep" /\ outcome \in {"fetch_failed", "decode_failed"}) =>
        latest_response_data = at_cycle_start

\* A cycle after the first ended in a decode failure with a snapshot published.
C1_Witness ==
    /\ ppc = "sleep"
    /\ cycle > 1
    /\ outcome = "decode_failed"
    /\ ~IsNone(latest_response_data)

\* C2: a reader running beside the polling loop observes no snapshot yet, or
\* the whole snapshot one successful cycle assembled (the one published while
\* the reader holds the lock); its vehicles, vehicle_count, feed_timestamp and
\* header never come from two cycles.
C2_ReaderSeesWholeSnapshot ==
    \A r \in Readers :
        /\ rd_resp[r].code = 404 => IsNone(rd_resp[r].body)
        /\ rd_resp[r].code = 200 =>
              /\ \E s \in hist : Val(rd_resp[r].body) \in {s, PopRaw(s)}
              /\ Val(rd_resp[r].body).vehicle_count
                     = Len(Val(rd_resp[r].body).vehicles)
              /\ Val(rd_resp[r].body).header.timestamp
                     = Val(rd_resp[r].body).feed_timestamp
        /\ rd_pc[r] \in {"pop", "respond"} =>
              /\ ~IsNone(latest_response_data)
              /\ Val(rd_copy[r]) \in {Val(latest_response_data),
                                      PopRaw(Val(latest_response_data))}
              /\ \E s \in hist : Val(rd_copy[r]) \in {s, PopRaw(s)}

\* A reader is in the middle of its read of the previous snapshot while the
\* polling thread waits for the lock with the next one.
C2_Witness ==
    \E r \in Readers :
        /\ rd_pc[r] = "respond"
        /\ ppc = "lock"
        /\ ~IsNone(built)
        /\ Val(built) # Val(latest_response_data)
        /\ Val(built).vehicles # Val(latest_response_data).vehicles

(***************************************************************************)
(* Claims about seconds_to_minutes_custom                                  *)
(***************************************************************************)

\* C4: seconds_to_minutes_custom applied to a delay of exactly -70 seconds
\* yields -1 minute (not -2).
C4_Minus70IsMinus1 ==
    (rpc = "ret" /\ sec = Some(-70)) => minutes = Some(-1)

\* The whole minutes m of s: the one integer with 60*m <= s < 60*(m+1).
WholeMinutes(s) ==
    CHOOSE m \in (-MaxSec - 1)..(MaxSec + 1) : 60 * m <= s /\ s < 60 * (m + 1)

\* The rule of the claim, from m = floor(s/60) and r = s - 60*m.
RuleMinutes(s) ==
    LET m == WholeMinutes(s)
        r == s - 60 * m
    IN  IF r < 30 THEN m
        ELSE IF s >= 0 THEN m + 1 ELSE m - 1

C9_DecoderTerminatesBounded ==
    /\ diters <= Len(data)
    /\ Len(results) <= diters
    /\ Len(results) <= RecordLimit + 1
    /\ (dpc = "loop" /\ di < Len(data)) => ~FieldRaises(data, di)
    /\ \A k \in 1..Len(results) : results[k].kind = "field"
    /\ (dpc = "done" /\ data = <<>>) => results = <<>>
    /\ (dpc = "loop" /\ diters > 0) => di < Len(data)

\* The decoder has returned early from a buffer with bytes left, holding as
\* many records as the limit lets through.
C9_Witness ==
    /\ dpc = "done"
    /\ di < Len(data)
    /\ Len(results) = RecordLimit + 1

\* A field the decoder cannot read at index i: an unsupported wire type, or a
\* fixed-width or length-delimited value running past the end of the buffer.
BadField(d, i) ==
    LET wt == At(d, i) % 8
        j == i + 1
        vi == read_varint(d, j)
    IN  \/ wt \notin {0, 1, 2, 5}
        \/ wt = 1 /\ j + 8 > Len(d)
        \/ wt = 5 /\ j + 4 > Len(d)
        \/ wt = 2 /\ j + vi[2] + vi[1] > Len(d)

\* C10: when the decoder meets a field with an unsupported wire type or a
\* truncated payload, it emits a record tagged with that field's offset,
\* advances exactly one byte and goes on decoding the rest of the buffer
\* (stated for a bad field that has bytes after its tag).
C10_BadFieldSkipped ==
    [][ (dpc = "loop" /\ di + 1 < Len(data) /\ BadField(data, di)) =>
          /\ Len(results') = Len(results) + 1
          /\ results'[Len(results')].offset = di
          /\ di' = di + 1
          /\ (di' < Len(data) /\ Len(results') <= RecordLimit) => dpc' = "loop"
      ]_vars

(***************************************************************************)
(* Claims about the live matcher                                           *)
(***************************************************************************)

\* c is the numeric code at the end of the label: the label is some text,
\* then "(", the digits c, ")", then nothing but whitespace.
IsTrailingCode(label, c) ==
    /\ c # <<>>
    /\ \A i \in 1..Len(c) : c[i] \in Digits
    /\ \E w \in 0..Len(label) :
          LET close == Len(label) - w
              open == close - Len(c) - 1
          IN  /\ open >= 1
              /\ \A i \in (close + 1)..Len(label) : label[i] \in Whitespace
              /\ label[close] = ")"
              /\ label[open] = "("
              /\ SubSeq(label, open + 1, close - 1) = c

\* The stop ids the vehicles report.
FleetStops == { Val(v.current_stop_id) : v \in { u \in Fleet : ~IsNone(u.current_stop_id) } }

\* The steps the annotation loop has passed, once /data has been fetched.
Annotated == IF mpc \in {"loop", "done"} THEN 1..mk ELSE {}

\* Some fetched vehicle is on the line and at the stop.
AtCodedStop(line, c) ==
    \E i \in 1..Len(vehicles_rows) :
        /\ vehicles_rows[i].route_id = line
        /\ vehicles_rows[i].current_stop_id = Some(c)

\* C6: if at least one vehicle of the leg's line has current_stop_id equal to
\* the numeric code at the end of the departure-stop label, the matcher
\* returns one of those vehicles, whatever the timestamps of the line's
\* vehicles at other stops.
C6_StopCodeBeforeRecency ==
    \A k \in Annotated : \A c \in FleetStops :
        ( /\ steps[k].mode = "TRANSIT"
          /\ ~IsNone(steps[k].line)
          /\ ~IsNone(steps[k].departure_stop)
          /\ IsTrailingCode(Val(steps[k].departure_stop), c)
          /\ AtCodedStop(steps[k].line, c) )
        => /\ ~IsNone(steps[k].vehicle_live)
           /\ \E i \in 1..Len(vehicles_rows) :
                 /\ vehicles_rows[i].route_id = steps[k].line
                 /\ vehicles_rows[i].current_stop_id = Some(c)
                 /\ Val(steps[k].vehicle_live) = VehicleLive(vehicles_rows[i])

\* A leg was matched to the vehicle at its stop although a vehicle of the
\* same line at another stop reported later.
C6_Witness ==
    /\ mpc = "done"
    /\ \E k \in 1..Len(steps) :
          /\ ~IsNone(steps[k].vehicle_live)
          /\ Val(steps[k].vehicle_live).current_stop_id = Some(Stop52)
          /\ \E i \in 1..Len(vehicles_rows) :
                /\ vehicles_rows[i].route_id = steps[k].line
                /\ vehicles_rows[i].current_stop_id = Some(Stop9)
                /\ SortKey(vehicles_rows[i]) > SortKey(Val(steps[k].vehicle_live))

C8_EveryTransitLegAnnotated ==
    (mpc = "done" /\ has_route) =>
        \A k \in 1..Len(steps) :
            (steps[k].mode = "TRANSIT" /\ ~IsNone(steps[k].line))
            => ~IsNone(steps[k].vehicle_live)

(***************************************************************************)
(* Claims about the delay join                                             *)
(***************************************************************************)

\* C3: the delay join yields exactly one joined row per vehicle row, also
\* when several stop-time updates share the (trip_id, stop_sequence) of a
\* vehicle: the output row count equals the vehicle row count.
C3_OneRowPerVehicle ==
    (jpc = "ret" /\ joined.status = "ok") =>
        Len(joined.rows) = Len(parse_vehicle_positions_feed(vehicle_feed))

(***************************************************************************)
(* Claims about the decoder run on encoded fields                          *)
(***************************************************************************)
\* The (field_number, wire_type, value) of a decoded record; the bytes of a
\* length-delimited value are compared through their hex text.
DecodedField(rec) == <<rec.field_number, rec.wire_type, rec.value>>

ExpectedField(f) ==
    <<Some(f.field_number), Some(f.wire_type),
      Some(IF f.wire_type = 2 THEN Hex(f.value) ELSE f.value)>>

\* C11: decoding the bytes the reference encoder writes for a list of
\* (field_number, wire_type, value) fields gives back the same fields, in the
\* same order.
C11_RoundTrip ==
    dpc = "done" =>
        \A fs \in SeqsUpTo(Fields, MaxFields) :
            EncodeFields(fs) = data =>
                /\ Len(results) = Len(fs)
                /\ \A k \in 1..Len(fs) :
                       DecodedField(results[k]) = ExpectedField(fs[k])

\* C11 for the fields whose key is one byte: the decoder reads those back.
C11_RoundTripOneByteKeys ==
    dpc = "done" =>
        \A fs \in SeqsUpTo({f \in Fields : f.field_number < 16}, MaxFields) :
            EncodeFields(fs) = data =>
                /\ Len(results) = Len(fs)
                /\ \A k \in 1..Len(fs) :
                       DecodedField(results[k]) = ExpectedField(fs[k])


(***************************************************************************)
(* Claims about the advisory loop                                          *)
(***************************************************************************)
\* C12: a cycle of the advisory loop whose fetch of the advisory page fails,
\* while both disabled-line files of an earlier cycle exist, leaves the text
\* file and the JSON file as they were before the cycle.
C12_FailedScrapeKeepsFiles ==
    (/\ spc = "sleep"
     /\ scrape_failed
     /\ ~IsNone(files_before[1])
     /\ ~IsNone(files_before[2]))
    => <<utruds_file, utruds_json_file>> = files_before


(***************************************************************************)
(* Claims about GET /data                                                  *)
(***************************************************************************)
\* C13: a feed payload that fails to parse raises no error out of the mapper:
\* the request is answered with an empty list of records.
C13_MalformedPayloadGivesEmptyResult ==
    (gpc = "ret" /\ g_malformed) => g_response = Answer(200, <<>>, "")


(***************************************************************************)
(* Claims about the vehicle records and the joined rows                    *)
(***************************************************************************)
\* The entities of the vehicle feed that hold a vehicle, in feed order: row
\* entity_id = n of the pipeline comes from the n-th of them.
VehiclesOf(feed) ==
    SelectSeq(feed, LAMBDA e : e.kind = "vehicle")

\* A text field absent in the entity is null in the row.
CarriedText(inFeed, inRow) == IsNone(inFeed) => IsNone(inRow)

\* A number absent in the entity is null in the row, and a zero stays zero.
Carried(inFeed, inRow) ==
    /\ IsNone(inFeed) => IsNone(inRow)
    /\ inFeed = Some(0) => inRow = Some(0)

\* C14: every optional field of a vehicle-position entity that is absent in
\* the feed is null in the vehicle record delivered, and a field present with
\* value zero stays zero.
C14_AbsentFieldsAreNull ==
    (jpc = "ret" /\ joined.status = "ok") =>
        \A i \in 1..Len(joined.rows) :
            LET r == joined.rows[i]
                v == VehiclesOf(vehicle_feed)[r.entity_id]
            IN  /\ CarriedText(v.vehicle_id, r.vehicle_id)
                /\ CarriedText(v.trip_id, r.trip_id)
                /\ CarriedText(v.route_id, r.route_id)
                /\ Carried(v.latitude, r.latitude)
                /\ Carried(v.longitude, r.longitude)
                /\ CarriedText(v.stop_id, r.current_stop_id)
                /\ Carried(v.current_stop_sequence, r.current_stop_sequence)
                /\ Carried(v.current_status, r.current_status)
                /\ Carried(v.timestamp, r.timestamp)

\* The update rows whose (trip_id, stop_sequence) is the key of row r: both
\* parts of the key are present and equal.
UpdatesWithKeyOf(r, updates) ==
    SelectSeq(updates,
              LAMBDA u : /\ ~IsNone(r.trip_id)
                         /\ ~IsNone(r.current_stop_sequence)
                         /\ u.tu_trip_id = r.trip_id
                         /\ u.stop_sequence = r.current_stop_sequence)

\* C15: a joined row of a vehicle with no update of its (trip_id,
\* current_stop_sequence) has null arrival_delay and arrival_delay_minutes;
\* otherwise arrival_delay is the delay of an update with exactly that key
\* and arrival_delay_minutes its conversion to minutes.
C15_DelayComesFromTheKey ==
    (jpc = "ret" /\ joined.status = "ok") =>
        \A i \in 1..Len(joined.rows) :
            LET r == joined.rows[i]
                us == UpdatesWithKeyOf(r, parse_trip_updates_feed(trip_feed))
            IN  /\ us = <<>> =>
                      IsNone(r.arrival_delay) /\ IsNone(r.arrival_delay_minutes)
                /\ us # <<>> =>
                      \E n \in 1..Len(us) :
                          /\ r.arrival_delay = us[n].arrival_delay
                          /\ r.arrival_delay_minutes
                                 = seconds_to_minutes_custom(us[n].arrival_delay)


(***************************************************************************)
(* Claims about the delay status of a live match                           *)
(***************************************************************************)
\* The four outcomes for a delay in minutes.
StatusRule(d) ==
    { st \in {None, Some("early"), Some("on_time"), Some("late")} :
        \/ IsNone(d) /\ st = None
        \/ ~IsNone(d) /\ Val(d) <= -1 /\ st = Some("early")
        \/ ~IsNone(d) /\ -1 < Val(d) /\ Val(d) <= 1 /\ st = Some("on_time")
        \/ ~IsNone(d) /\ Val(d) > 1 /\ st = Some("late") }

\* C16: the delay_status of a live match is early for a delay <= -1 minute,
\* on_time for -1 < delay <= 1, late for delay > 1 and absent for a null
\* delay, and exactly one of the four holds.
C16_DelayStatusRule ==
    \A k \in 1..Len(steps) :
        ~IsNone(steps[k].vehicle_live) =>
            LET live == Val(steps[k].vehicle_live)
            IN  /\ Cardinality(StatusRule(live.arrival_delay_minutes)) = 1
                /\ live.delay_status \in StatusRule(live.arrival_delay_minutes)

\* The enrichment has annotated a leg with a vehicle exactly one minute early
\* and another with a vehicle whose delay is null.
C16_Witness ==
    /\ mpc = "done"
    /\ \E k \in 1..Len(steps) :
          /\ ~IsNone(steps[k].vehicle_live)
          /\ Val(steps[k].vehicle_live).arrival_delay_minutes = Some(-1)
          /\ Val(steps[k].vehicle_live).delay_status = Some("early")
    /\ \E k \in 1..Len(steps) :
          /\ ~IsNone(steps[k].vehicle_live)
          /\ IsNone(Val(steps[k].vehicle_live).arrival_delay_minutes)


(***************************************************************************)
(* Claims about the route classification                                   *)
(***************************************************************************)
\* The route types whose static set holds the route id.
TypesHolding(route_id) ==
    { t \in {"tramwaj", "autobus", "nocny_autobus"} :
        /\ ~IsNone(route_id)
        /\ \/ t = "tramwaj" /\ Val(route_id) \in TRAM_ROUTES
           \/ t = "autobus" /\ Val(route_id) \in BUS_ROUTES
           \/ t = "nocny_autobus" /\ Val(route_id) \in NOCNE_BUS_ROUTES }

\* C17: the tram, bus and night-bus sets are pairwise disjoint, so the type
\* given to a route is that of the only set holding it, whatever the order in
\* which the sets are tested.
C17_RouteSetsDisjoint ==
    /\ TRAM_ROUTES \cap BUS_ROUTES = {}
    /\ TRAM_ROUTES \cap NOCNE_BUS_ROUTES = {}
    /\ BUS_ROUTES \cap NOCNE_BUS_ROUTES = {}
    /\ (jpc = "ret" /\ joined.status = "ok") =>
           \A i \in 1..Len(joined.rows) :
               LET held == TypesHolding(joined.rows[i].route_id)
               IN  /\ Cardinality(held) <= 1
                   /\ held = {} => joined.rows[i].route_type = "unknown"
                   /\ held # {} => held = {joined.rows[i].route_type}

\* Rows of a tram line and of a bus line have been classified.
C17_Witness ==
    /\ jpc = "ret"
    /\ joined.status = "ok"
    /\ \E i \in 1..Len(joined.rows) : joined.rows[i].route_type = "tramwaj"
    /\ \E i \in 1..Len(joined.rows) : joined.rows[i].route_type = "autobus"


(***************************************************************************)
(* Claims about the monitor loop                                           *)
(***************************************************************************)
\* C18: the loop is never stopped by remote data: no failure of a fetch
\* leaves the loop, the second feed of a tick is fetched whatever happened to
\* the first, and after a tick in which a fetch failed the loop reaches the
\* next tick and fetches again.
C18_LoopSurvivesFailures ==
    /\ [](apc # "crashed")
    /\ [](apc = "sleep" => a_positions # "none")
    /\ \A t \in 1..MaxTicks :
           (atick = t /\ "failed" \in {a_alerts, a_positions})
               ~> (atick # t /\ apc = "positions")

\* Both fetches of a tick failed and the loop is at the fetch of a later tick.
C18_Witness ==
    /\ atick = 2
    /\ apc = "alerts"
    /\ a_alerts = "failed"
    /\ a_positions = "failed"


(***************************************************************************)
(* Claims about the writer and the readers of the snapshot                 *)
(***************************************************************************)
\* C19: latest_response_data changes only in the polling thread's assignment
\* made under db_lock, never in a request handler; a handler's pop of
\* raw_content_hex touches its own copy only, so the published snapshot keeps
\* its raw content and a request with include_raw is answered with it.
C19_SingleWriterReadOnlyReaders ==
    /\ [][latest_response_data' # latest_response_data =>
              /\ ppc = "publish"
              /\ ppc' = "unlock"
              /\ db_lock = "poller"
              /\ latest_response_data' = built]_vars
    /\ [](~IsNone(latest_response_data) =>
              ~IsNone(Val(latest_response_data).raw_content_hex))
    /\ [](\A r \in Readers :
              (rd_resp[r].code = 200 /\ rd_raw[r]) =>
                  ~IsNone(Val(rd_resp[r].body).raw_content_hex))

\* One handler has answered without the raw content, and a later handler that
\* asked for it holds a copy of the same snapshot with the raw content in it.
C19_Witness ==
    /\ rd_resp["r1"].code = 200
    /\ IsNone(Val(rd_resp["r1"].body).raw_content_hex)
    /\ rd_pc["r2"] = "respond"
    /\ rd_raw["r2"]
    /\ ~IsNone(Val(rd_copy["r2"]).raw_content_hex)
    /\ Val(rd_copy["r2"]).fetched_at = Val(rd_resp["r1"].body).fetched_at


(***************************************************************************)
(* Claims about the stop names                                             *)
(***************************************************************************)
\* The rows of stops.txt whose stop_id is the stop id of the entity, as text.
StopsOf(v) ==
    { st \in { StaticStops[n] : n \in 1..Len(StaticStops) } :
        ~IsNone(v.stop_id) /\ st.stop_id = Val(v.stop_id) }

\* C20: every vehicle of the feed is delivered, with the stop_name, stop_lat
\* and stop_lon of the row of stops.txt whose stop_id equals its
\* current_stop_id as text; when no row does, or the vehicle has no stop id,
\* current_stop_name, current_stop_lat and current_stop_lon are all null.
C20_StopNamesFromStaticStops ==
    (jpc = "ret" /\ joined.status = "ok") =>
        /\ \A e \in 1..Len(VehiclesOf(vehicle_feed)) :
               \E i \in 1..Len(joined.rows) : joined.rows[i].entity_id = e
        /\ \A i \in 1..Len(joined.rows) :
               LET r == joined.rows[i]
                   found == StopsOf(VehiclesOf(vehicle_feed)[r.entity_id])
               IN  /\ found = {} =>
                          /\ IsNone(r.current_stop_name)
                          /\ IsNone(r.current_stop_lat)
                          /\ IsNone(r.current_stop_lon)
                   /\ found # {} =>
                          \E st \in found :
                              /\ r.current_stop_name = Some(st.stop_name)
                              /\ r.current_stop_lat = Some(st.stop_lat)
                              /\ r.current_stop_lon = Some(st.stop_lon)

\* A vehicle at a stop of stops.txt and one at a stop that is not in it have
\* both been delivered.
C20_Witness ==
    /\ jpc = "ret"
    /\ joined.status = "ok"
    /\ \E i \in 1..Len(joined.rows) :
          /\ joined.rows[i].current_stop_id = Some("0052")
          /\ joined.rows[i].current_stop_name
                 = Some("Broniewskiego - Kraszewskiego")
    /\ \E i \in 1..Len(joined.rows) :
          /\ joined.rows[i].current_stop_id = Some("9999")
          /\ IsNone(joined.rows[i].current_stop_name)

(***************************************************************************)
(* Claims about the key of a field                                         *)
(***************************************************************************)
\* C21: the key of a field is read as a continuation-encoded integer, so a
\* field whose number is above 15 (a key of more than one byte) is decoded
\* with its field number and wire type, and its value is read from after the
\* whole key.
C21_MultiByteKeyDecoded ==
    dpc = "done" =>
        \A fs \in SeqsUpTo(Fields, MaxFields) :
            (fs # <<>> /\ EncodeFields(fs) = data /\ fs[1].field_number > 15) =>
                /\ Len(results) >= 1
                /\ DecodedField(results[1]) = ExpectedField(fs[1])

(***************************************************************************)
(* Claims about the choice among the candidates                            *)
(***************************************************************************)
\* The rows of the fetched data that are candidates for step k: on the
\* step's line and at the stop whose code ends the step's label.
CandidatesOf(k) ==
    { i \in 1..Len(vehicles_rows) :
        /\ ~IsNone(steps[k].line)
        /\ ~IsNone(steps[k].departure_stop)
        /\ vehicles_rows[i].route_id = steps[k].line
        /\ ~IsNone(vehicles_rows[i].current_stop_id)
        /\ IsTrailingCode(Val(steps[k].departure_stop),
                          Val(vehicles_rows[i].current_stop_id)) }

\* A timestamp with a missing one counted as 0.
TimestampOrZero(ts) == IF IsNone(ts) THEN 0 ELSE Val(ts)

\* C22 (as claimed): the matcher returns a candidate of the numerically
\* greatest timestamp, a missing timestamp counting as lower than every real
\* one: a candidate without a timestamp is returned only if no candidate has
\* a timestamp.
C22_MissingTimestampBelowEveryReal ==
    \A k \in Annotated :
        (steps[k].mode = "TRANSIT" /\ ~IsNone(steps[k].vehicle_live)) =>
            \A i \in CandidatesOf(k) :
                ~IsNone(vehicles_rows[i].timestamp) =>
                    /\ ~IsNone(Val(steps[k].vehicle_live).timestamp)
                    /\ Val(Val(steps[k].vehicle_live).timestamp)
                           >= Val(vehicles_rows[i].timestamp)

\* C22 (amended): the matcher returns a candidate of the numerically greatest
\* timestamp, a missing timestamp counting as 0, the lowest value a timestamp
\* takes: a candidate without a timestamp is returned only if no candidate
\* has a timestamp above 0.
C22_GreatestTimestampMissingAsZero ==
    \A k \in Annotated :
        (steps[k].mode = "TRANSIT" /\ ~IsNone(steps[k].vehicle_live)) =>
            /\ \E i \in CandidatesOf(k) :
                   Val(steps[k].vehicle_live) = VehicleLive(vehicles_rows[i])
            /\ \A i \in CandidatesOf(k) :
                   TimestampOrZero(Val(steps[k].vehicle_live).timestamp)
                       >= TimestampOrZero(vehicles_rows[i].timestamp)
            /\ IsNone(Val(steps[k].vehicle_live).timestamp) =>
                   \A i \in CandidatesOf(k) :
                       TimestampOrZero(vehicles_rows[i].timestamp) = 0

\* A leg had two candidates, the first without a timestamp and the second
\* with one above 0, and was matched to the second.
C22_Witness ==
    /\ mpc = "done"
    /\ \E k \in 1..Len(steps) :
          /\ ~IsNone(steps[k].vehicle_live)
          /\ CandidatesOf(k) = {1, 2}
          /\ IsNone(vehicles_rows[1].timestamp)
          /\ TimestampOrZero(vehicles_rows[2].timestamp) > 0
          /\ Val(steps[k].vehicle_live) = VehicleLive(vehicles_rows[2])

(***************************************************************************)
(* Claims about the rows of the two feeds                                  *)
(***************************************************************************)
\* The entity_id column of a record set.
EntityIds(rows) == [i \in 1..Len(rows) |-> rows[i].entity_id]

\* The entities of a feed that hold the sub-message `kind`, in feed order.
EntitiesOfKind(feed, kind) == SelectSeq(feed, LAMBDA e : e.kind = kind)

\* The ids of the vehicle set: 1, 2, ... one per vehicle entity.
VehicleIdsNumbered ==
    EntityIds(parse_vehicle_positions_feed(vehicle_feed))
        = [i \in 1..Len(EntitiesOfKind(vehicle_feed, "vehicle")) |-> i]

\* C23 (as claimed): in each of the two record sets entity_id starts at 1 and
\* is stepped only for an entity that holds the relevant sub-message, other
\* entities consume no id, vehicle ids are unique, and the last id assigned
\* equals the number of rows extracted.
C23_LastIdIsRowCount ==
    jpc = "ret" =>
        LET updates == parse_trip_updates_feed(trip_feed)
        IN  /\ VehicleIdsNumbered
            /\ updates # <<>> =>
                   /\ updates[1].entity_id = 1
                   /\ updates[Len(updates)].entity_id = Len(updates)

\* C23 (amended): vehicle ids are 1, 2, ... one per vehicle entity, so the
\* last one is the number of vehicle rows; the rows of the n-th trip-update
\* entity all carry the id n, entities of another kind consume no id, and
\* the last id assigned in the update set is the number of trip-update
\* entities, not the number of rows.
C23_IdsNumberTheEntities ==
    jpc = "ret" =>
        LET tus == EntitiesOfKind(trip_feed, "trip_update")
        IN  /\ VehicleIdsNumbered
            /\ EntityIds(parse_trip_updates_feed(trip_feed))
                   = Flatten([n \in 1..Len(tus) |->
                                 [j \in 1..Len(tus[n].stop_time_update) |-> n]])

\* Both feeds held an entity of another kind before the relevant one, and
\* the trip update expanded into two rows.
C23_Witness ==
    /\ jpc = "ret"
    /\ Len(vehicle_feed) = 2 /\ vehicle_feed[1] = AlertEntity
    /\ Len(parse_vehicle_positions_feed(vehicle_feed)) = 1
    /\ Len(trip_feed) = 2 /\ trip_feed[1] = AlertEntity
    /\ Len(parse_trip_updates_feed(trip_feed)) = 2

\* How many stop-time updates the first n entities of tus hold together.
RECURSIVE UpdatesIn(_, _)
UpdatesIn(tus, n) ==
    IF n = 0 THEN 0
    ELSE UpdatesIn(tus, n - 1) + Len(tus[n].stop_time_update)

\* C24: a trip-update entity with k stop-time updates yields exactly k rows
\* (none when k = 0), in feed order, each with the parent's trip id, route
\* id, direction id, start time and entity_id; the arrival delay of a row is
\* the delay of the nested arrival when that is present and null otherwise.
C24_OneRowPerStopTimeUpdate ==
    jpc = "ret" =>
        LET tus == EntitiesOfKind(trip_feed, "trip_update")
            rows == parse_trip_updates_feed(trip_feed)
        IN  /\ Len(rows) = UpdatesIn(tus, Len(tus))
            /\ \A n \in 1..Len(tus) :
                   \A j \in 1..Len(tus[n].stop_time_update) :
                       LET row == rows[UpdatesIn(tus, n - 1) + j]
                           stu == tus[n].stop_time_update[j]
                       IN  /\ row.entity_id = n
                           /\ row.tu_trip_id = tus[n].trip_id
                           /\ row.tu_route_id = tus[n].route_id
                           /\ row.tu_direction_id = tus[n].direction_id
                           /\ row.tu_start_time = tus[n].start_time
                           /\ row.stop_id = stu.stop_id
                           /\ row.stop_sequence = stu.stop_sequence
                           /\ row.arrival_delay
                                  = IF stu.arrival = None THEN None
                                    ELSE Val(stu.arrival)

\* A feed of an entity with two stop-time updates, one of them without an
\* arrival, and an entity with none was parsed into two rows.
C24_Witness ==
    /\ jpc = "ret"
    /\ LET tus == EntitiesOfKind(trip_feed, "trip_update")
           rows == parse_trip_updates_feed(trip_feed)
       IN  /\ Len(tus) = 2
           /\ Len(tus[1].stop_time_update) = 0
           /\ Len(tus[2].stop_time_update) = 2
           /\ Len(rows) = 2
           /\ IsNone(rows[1].arrival_delay)
           /\ ~IsNone(rows[2].arrival_delay)

C26_LlmFailureKeepsDisabledLines ==
    (/\ spc = "sleep"
     /\ ~scrape_failed
     /\ llm_failed
     /\ ~IsNone(files_before[2])
     /\ Val(files_before[2]).disabled_lines # {})
    => /\ ~IsNone(utruds_json_file)
       /\ Val(utruds_json_file).disabled_lines
              = Val(files_before[2]).disabled_lines

(***************************************************************************)
(* Claims about the order of the rounded delays                            *)
(***************************************************************************)
\* C27: seconds_to_minutes_custom is monotone non-decreasing: for integer
\* delays s1 <= s2 of a range that holds negative values, the minutes of s1
\* are at most the minutes of s2.
C27_RoundingMonotone ==
    (rpc = "ret" /\ ~IsNone(sec)) =>
        \A s1 \in (-MaxSec)..Val(sec) :
            Val(seconds_to_minutes_custom(Some(s1))) <= Val(minutes)

(***************************************************************************)
(* Claims about vehicles without a join key                                *)
(***************************************************************************)
\* C28: a vehicle whose trip_id or current_stop_sequence is absent is never
\* joined to a stop-time update: the columns its joined row takes from the
\* updates, the delay fields among them, are null, also when an update has a
\* null trip id or a null stop sequence.
C28_KeylessVehicleNotJoined ==
    (jpc = "ret" /\ joined.status = "ok") =>
        \A i \in 1..Len(joined.rows) :
            LET r == joined.rows[i]
            IN  (IsNone(r.trip_id) \/ IsNone(r.current_stop_sequence)) =>
                    /\ IsNone(r.arrival_delay)
                    /\ IsNone(r.arrival_delay_minutes)
                    /\ IsNone(r.stop_id)
                    /\ IsNone(r.schedule_relationship)
                    /\ IsNone(r.tu_direction_id)

(***************************************************************************)
(* Claims about feeds that hold no vehicle or no update                    *)
(***************************************************************************)
\* C29: when the feeds decode but the vehicle feed holds no vehicle entity,
\* or the trip feed no stop-time update, the pipeline returns a dataset and
\* raises no error: no rows for no vehicles, and rows with null delay fields
\* for no updates.
C29_EmptyFeedsGiveDataset ==
    LET no_vehicles == EntitiesOfKind(vehicle_feed, "vehicle") = <<>>
        tus == EntitiesOfKind(trip_feed, "trip_update")
        no_updates == UpdatesIn(tus, Len(tus)) = 0
    IN  (jpc = "ret" /\ (no_vehicles \/ no_updates)) =>
            /\ joined.status = "ok"
            /\ no_vehicles => joined.rows = <<>>
            /\ no_updates =>
                   \A i \in 1..Len(joined.rows) :
                       /\ IsNone(joined.rows[i].arrival_delay)
                       /\ IsNone(joined.rows[i].arrival_delay_minutes)

(***************************************************************************)
(* Claims about what the annotation leaves alone                           *)
(***************************************************************************)
\* C30: annotating an itinerary changes nothing but the vehicle_live of
\* transit steps: the steps keep their number and order and every other
\* field, a step that is not a transit step never gains vehicle_live, and
\* when the fetch of the live data fails (or there is no route) the
\* itinerary is returned as it was handed in.
C30_OnlyVehicleLiveAdded ==
    /\ Len(steps) = Len(orig_steps)
    /\ \A k \in 1..Len(steps) :
           /\ steps[k].mode = orig_steps[k].mode
           /\ steps[k].line = orig_steps[k].line
           /\ steps[k].departure_stop = orig_steps[k].departure_stop
           /\ steps[k].mode # "TRANSIT" => IsNone(steps[k].vehicle_live)
           /\ k \notin Annotated => steps[k] = orig_steps[k]
    /\ (mpc = "failed" \/ ~has_route) => steps = orig_steps

\* An itinerary of a walking step and a transit step was annotated: the
\* transit step gained vehicle_live and the walking step did not.
C30_Witness ==
    /\ mpc = "done"
    /\ Len(steps) = 2
    /\ steps[1].mode = "WALKING"
    /\ steps[1] = orig_steps[1]
    /\ steps[2].mode = "TRANSIT"
    /\ ~IsNone(steps[2].vehicle_live)
    /\ IsNone(orig_steps[2].vehicle_live)

====
